---- MODULE Spec2Model ----
(***************************************************************************)
(* Troposphere models of LEO/tropmodel.c: the standard-atmosphere +        *)
(* Saastamoinen delay (tropmodel) and the Niell mapping function           *)
(* (interpc, mapf, nmf, tropmapf).                                         *)
(*                                                                         *)
(* The C code computes in double precision.  The model computes the same   *)
(* doubles: a number is an IEEE 754 binary64 value, every operation rounds *)
(* to nearest with ties to even, comparisons with a NaN are false, the     *)
(* infinities, the signed zeros and the subnormal numbers behave as in C,  *)
(* and a decimal literal is the double nearest to it.  The functions of    *)
(* math.h are computed to 84 bits and rounded once.                        *)
(***************************************************************************)
EXTENDS Integers, Sequences, FiniteSets, TLC

(***************************************************************************)
(* Natural numbers of any size: the sequence of the digits in base 2^14,   *)
(* least significant first, without leading zeros; <<>> is 0               *)
(***************************************************************************)
B == 16384
LimbBits == 14

\* F(v), v evaluated before F is: a loop written with Then is evaluated step
\* after step, and not as one expression as deep as the loop is long
Then(v, F(_)) == CHOOSE r \in { F(s) : s \in {v} } : TRUE

Max(x, y) == IF x >= y THEN x ELSE y
Min(x, y) == IF x <= y THEN x ELSE y

\* digit i of a, 0 beyond its length
Limb(a, i) == IF 1 <= i /\ i <= Len(a) THEN a[i] ELSE 0

RECURSIVE NTrim(_)
NTrim(a) ==
    IF Len(a) = 0 THEN << >>
    ELSE IF a[Len(a)] # 0 THEN a
    ELSE NTrim(SubSeq(a, 1, Len(a) - 1))

\* the carry c spelled out in digits
CarryDigits(c) ==
    IF c = 0 THEN << >>
    ELSE IF c < B THEN <<c>>
    ELSE IF c < B * B THEN <<c % B, c \div B>>
    ELSE <<c % B, (c \div B) % B, c \div (B * B)>>

\* one more column x: st = <<the digits so far, the carry into the column>>
CarryStep(st, x) == <<Append(st[1], (x + st[2]) % B), (x + st[2]) \div B>>

RECURSIVE CarryRun(_, _, _, _)
\* the columns lo..hi of cols, taken in halves to keep the evaluation shallow
CarryRun(cols, st, lo, hi) ==
    IF lo = hi THEN CarryStep(st, cols[lo])
    ELSE Then(CarryRun(cols, st, lo, (lo + hi) \div 2),
              LAMBDA s : CarryRun(cols, s, ((lo + hi) \div 2) + 1, hi))

CarryEnd(st) == st[1] \o CarryDigits(st[2])

\* the digits of the sum of cols[j] * B^(j-1), each column below 2^31 - 2^17
NCarry(cols) ==
    IF Len(cols) = 0 THEN << >> ELSE CarryEnd(CarryRun(cols, <<<< >>, 0>>, 1, Len(cols)))

\* 0 <= n < 2^31
NFromInt(n) == NTrim(<<n % B, (n \div B) % B, n \div (B * B)>>)

\* a < 2^31
NToInt(a) == Limb(a, 1) + B * Limb(a, 2) + B * B * Limb(a, 3)

NAdd(a, b) == NCarry([i \in 1..Max(Len(a), Len(b)) |-> Limb(a, i) + Limb(b, i)])

\* a - b for a >= b
NSub(a, b) == NTrim(NCarry([i \in 1..Len(a) |-> a[i] - Limb(b, i)]))

RECURSIVE NCmpFrom(_, _, _)
NCmpFrom(a, b, i) ==
    IF i = 0 THEN 0
    ELSE IF a[i] # b[i] THEN (IF a[i] < b[i] THEN -1 ELSE 1)
    ELSE NCmpFrom(a, b, i - 1)

\* -1, 0, 1 for a < b, a = b, a > b
NCmp(a, b) ==
    IF Len(a) # Len(b) THEN (IF Len(a) < Len(b) THEN -1 ELSE 1)
    ELSE NCmpFrom(a, b, Len(a))

RECURSIVE ColLow(_, _, _, _)
\* sum of (a[i] * b[k + 1 - i]) % B for i from lo on
ColLow(a, b, k, lo) ==
    IF lo > Min(k, Len(a)) THEN 0
    ELSE ((a[lo] * Limb(b, k + 1 - lo)) % B) + ColLow(a, b, k, lo + 1)

RECURSIVE ColHigh(_, _, _, _)
\* sum of (a[i] * b[k + 1 - i]) \div B for i from lo on
ColHigh(a, b, k, lo) ==
    IF lo > Min(k, Len(a)) THEN 0
    ELSE ((a[lo] * Limb(b, k + 1 - lo)) \div B) + ColHigh(a, b, k, lo + 1)

\* a * b for Len(a) <= Len(b): column k holds the low halves of the products
\* of digits i and k + 1 - i and the high halves of those of column k - 1
NMulShort(a, b) ==
    NTrim(NCarry([k \in 1..(Len(a) + Len(b)) |->
                     ColLow(a, b, k, Max(1, k + 1 - Len(b)))
                     + ColHigh(a, b, k - 1, Max(1, k - Len(b)))]))

\* a * b
NMul(a, b) ==
    IF Len(a) = 0 \/ Len(b) = 0 THEN << >>
    ELSE IF Len(a) <= Len(b) THEN NMulShort(a, b)
    ELSE NMulShort(b, a)

\* a * d for 0 <= d < 2^16
NMulSmall(a, d) == IF d = 0 THEN << >> ELSE NCarry([i \in 1..Len(a) |-> a[i] * d])

\* a * 2^k
NShl(a, k) ==
    NTrim([i \in 1..(Len(a) + (k \div LimbBits) + 1) |->
              ((Limb(a, i - (k \div LimbBits)) * 2^(k % LimbBits)) % B)
              + (Limb(a, i - (k \div LimbBits) - 1) \div 2^(LimbBits - (k % LimbBits)))])

\* a / 2^k, truncated
NShr(a, k) ==
    IF Len(a) <= k \div LimbBits THEN << >>
    ELSE NTrim([i \in 1..(Len(a) - (k \div LimbBits)) |->
              (a[i + (k \div LimbBits)] \div 2^(k % LimbBits))
              + (Limb(a, i + (k \div LimbBits) + 1) % 2^(k % LimbBits)) * 2^(LimbBits - (k % LimbBits))])

\* a mod 2^k
NLow(a, k) ==
    NTrim([i \in 1..Min(Len(a), (k \div LimbBits) + 1) |->
              IF i <= k \div LimbBits THEN a[i] ELSE a[i] % 2^(k % LimbBits)])

\* bit k of a, bit 0 the least significant
NBit(a, k) == (Limb(a, (k \div LimbBits) + 1) \div 2^(k % LimbBits)) % 2

RECURSIVE BitLen(_)
BitLen(x) == IF x = 0 THEN 0 ELSE 1 + BitLen(x \div 2)

\* the number of bits of a
NBits(a) == IF Len(a) = 0 THEN 0 ELSE LimbBits * (Len(a) - 1) + BitLen(a[Len(a)])

\* r - d * b as <<digits, carry>>, of value digits + carry * B^(Len(b) + 1)
\* with carry <= 0; r < b * B
SubMul(r, b, d) ==
    CarryRun([i \in 1..(Len(b) + 1) |-> Limb(r, i) - d * Limb(b, i)], <<<< >>, 0>>,
             1, Len(b) + 1)

RECURSIVE QFix(_, _, _)
RECURSIVE QFixAdd(_, _, _, _)
\* <<the digit r / b, the remainder>> from t = r - d * b for a digit d that is
\* not too small: while t is negative, b is added to it and d is lowered
QFix(t, b, d) ==
    IF t[2] = 0 THEN <<d, NTrim(t[1])>>
    ELSE QFixAdd(CarryRun([i \in 1..Len(t[1]) |-> t[1][i] + Limb(b, i)], <<<< >>, 0>>,
                          1, Len(t[1])),
                 t[2], b, d)
QFixAdd(u, c, b, d) == QFix(<<u[1], c + u[2]>>, b, d - 1)

\* the first guess of the digit r / b from the leading digits, never too small
\* and at most 2 too large when the top digit of b is >= B/2
QGuess(r, b) == Min(B - 1, (Limb(r, Len(b) + 1) * B + Limb(r, Len(b))) \div b[Len(b)])

\* <<the digit r / b, the remainder>>, for r < b * B
QDigit(r, b) == QFix(SubMul(r, b, QGuess(r, b)), b, QGuess(r, b))

\* st = <<the quotient, the remainder>> of the digits of a brought down so
\* far, r the remainder with the next digit brought down, d = QDigit(r, b)
NDivDigit(st, d) == <<<<d[1]>> \o st[1], d[2]>>
NDivStep(st, b, x) == NDivDigit(st, QDigit(NTrim(<<x>> \o st[2]), b))

RECURSIVE NDivRun(_, _, _, _, _)
\* long division by b of the digits hi down to lo of a, taken in halves
NDivRun(a, b, st, hi, lo) ==
    IF lo = hi THEN NDivStep(st, b, a[lo])
    ELSE Then(NDivRun(a, b, st, hi, ((lo + hi) \div 2) + 1),
              LAMBDA s : NDivRun(a, b, s, (lo + hi) \div 2, lo))

NDivEnd(st) == <<NTrim(st[1]), st[2]>>

\* <<a / b, a % b>> for b with a top digit >= B/2: the leading Len(b) - 1
\* digits of a are the first remainder
NDivNorm(a, b) ==
    IF Len(a) < Len(b) THEN <<<< >>, a>>
    ELSE NDivEnd(NDivRun(a, b, <<<< >>, NTrim(SubSeq(a, Len(a) - Len(b) + 2, Len(a)))>>,
                         Len(a) - Len(b) + 1, 1))

\* <<the quotient a / b, a remainder that is 0 iff a % b is>>, b > 0
NDivMod(a, b) ==
    NDivNorm(NShl(a, (LimbBits - (NBits(b) % LimbBits)) % LimbBits),
             NShl(b, (LimbBits - (NBits(b) % LimbBits)) % LimbBits))

\* whether a mod 2^k is 0
NLowZero(a, k) == Len(NLow(a, k)) = 0

RECURSIVE NPow10Run(_, _)
\* a * 10^(4n)
NPow10Run(a, n) ==
    IF n = 0 THEN a
    ELSE IF n = 1 THEN NMulSmall(a, 10000)
    ELSE Then(NPow10Run(a, n \div 2), LAMBDA s : NPow10Run(s, n - (n \div 2)))

\* 10^k
NPow10(k) == NPow10Run(<<10^(k % 4)>>, k \div 4)

(***************************************************************************)
(* Floating-point numbers: C's double, the IEEE 754 binary64 format        *)
(*                                                                         *)
(* A number is [k |-> "num", s, m, e] of value (-1)^s * m * 2^e, m a       *)
(* natural number as above: m of exactly 53 bits and -1074 <= e <= 971     *)
(* (normal), or m of fewer bits and e = -1074 (subnormal), or m = 0 and    *)
(* e = 0 (the zeros +0 and -0).  [k |-> "inf", s] are the infinities and   *)
(* [k |-> "nan"] is not-a-number.  Every operation rounds the exact result *)
(* to the nearest double, ties to even.                                    *)
(***************************************************************************)
Precision == 53
EMin == -1074
EMaxBits == 1024

Zero    == [k |-> "num", s |-> 0, m |-> << >>, e |-> 0]
NegZero == [k |-> "num", s |-> 1, m |-> << >>, e |-> 0]
NaN     == [k |-> "nan", s |-> 0, m |-> << >>, e |-> 0]
Inf(s)  == [k |-> "inf", s |-> s, m |-> << >>, e |-> 0]

IsNaN(a)  == a.k = "nan"
IsInf(a)  == a.k = "inf"
IsZero(a) == a.k = "num" /\ Len(a.m) = 0

\* -1, 0, 1: the sign of a, a not NaN
Sgn(a) == IF IsZero(a) THEN 0 ELSE IF a.s = 1 THEN -1 ELSE 1

\* (-1)^s * m * 2^e for m of at most 53 bits, as a double
Pack(s, m, e) ==
    IF Len(m) = 0 THEN [k |-> "num", s |-> s, m |-> << >>, e |-> 0]
    ELSE IF e + NBits(m) > EMaxBits THEN Inf(s)
    ELSE [k |-> "num", s |-> s, m |-> m, e |-> e]

\* q * 2^e for q of at most 54 bits that are 53 bits after the rounding
Renorm(s, q, e) ==
    Pack(s, IF NBits(q) > Precision THEN NShr(q, 1) ELSE q,
         IF NBits(q) > Precision THEN e + 1 ELSE e)

\* whether m / 2^d rounds up: the first bit dropped is 1 and a later one, or
\* one left out of m (st), or the last bit kept is 1
RoundsUp(m, st, d) ==
    NBit(m, d - 1) = 1 /\ (st \/ NBit(m, d) = 1 \/ ~NLowZero(m, d - 1))

\* m * 2^e with d bits dropped (d > 0) or -d zero bits added
RoundShift(s, m, e, st, d) ==
    Renorm(s,
           IF d <= 0 THEN NShl(m, -d)
           ELSE NAdd(NShr(m, d), IF RoundsUp(m, st, d) THEN <<1>> ELSE << >>),
           e + d)

\* the double nearest to (-1)^s * (m + f) * 2^e, where 0 < f < 1 if st and
\* f = 0 if not; with st, m has at least 55 bits
FRound(s, m, e, st) == RoundShift(s, m, e, st, Max(NBits(m) - Precision, EMin - e))

FNeg(a) == [k |-> a.k, s |-> 1 - a.s, m |-> a.m, e |-> a.e]

\* n as a double, -2^31 < n < 2^31
FromInt(n) ==
    FRound(IF n < 0 THEN 1 ELSE 0, NFromInt(IF n < 0 THEN -n ELSE n), 0, FALSE)

\* (-1)^s * q[1] * 2^e rounded, q the quotient and remainder of a division
QuotRound(s, q, e) == FRound(s, q[1], e, Len(q[2]) # 0)

\* (-1)^s * n * p for k >= 0 and (-1)^s * n / p for k < 0, the quotient taken
\* with sh more bits, at least 56 in all
DecRound(s, n, k, p, sh) ==
    QuotRound(s,
              IF k >= 0 THEN <<NMul(n, p), << >>>> ELSE NDivMod(NShl(n, sh), p),
              IF k >= 0 THEN 0 ELSE -sh)

\* p = 10^|k|
DecPow(s, n, k, p) == DecRound(s, n, k, p, Max(0, 56 + NBits(p) - NBits(n)))

\* the decimal literal (-1)^s * n * 10^k, n a natural number: the double
\* nearest to it
DecN(s, n, k) == DecPow(s, n, k, NPow10(IF k >= 0 THEN k ELSE -k))

\* the decimal literal n * 10^k, e.g. 1013.25 = Dec(101325, -2)
Dec(n, k) == DecN(IF n < 0 THEN 1 ELSE 0, NFromInt(IF n < 0 THEN -n ELSE n), k)

\* the decimal literal (hi * 10^9 + lo) * 10^k of up to 18 digits, hi >= 0,
\* 0 <= lo < 10^9
Dec18(hi, lo, k) == DecN(0, NAdd(NMul(NFromInt(hi), NFromInt(10^9)), NFromInt(lo)), k)

\* |a| < |b| for a and b not NaN, not 0
MagLt(a, b) ==
    IF IsInf(a) THEN FALSE
    ELSE IF IsInf(b) THEN TRUE
    ELSE a.e < b.e \/ (a.e = b.e /\ NCmp(a.m, b.m) < 0)

\* a < b for a and b not NaN
Less(a, b) ==
    IF Sgn(a) # Sgn(b) THEN Sgn(a) < Sgn(b)
    ELSE IF Sgn(a) = 0 THEN FALSE
    ELSE IF Sgn(a) = 1 THEN MagLt(a, b)
    ELSE MagLt(b, a)

\* a == b, a < b, a <= b of C: false if a or b is NaN; +0 and -0 are equal
FEq(a, b) == ~IsNaN(a) /\ ~IsNaN(b) /\ ((IsZero(a) /\ IsZero(b)) \/ a = b)
FLt(a, b) == ~IsNaN(a) /\ ~IsNaN(b) /\ Less(a, b)
FLe(a, b) == FLt(a, b) \/ FEq(a, b)

\* ((-1)^sa * ma + (-1)^sb * mb) * 2^e, rounded; c compares ma with mb; with
\* st, something of the sign of the result is left out of the sum
AddSigned(sa, ma, sb, mb, e, st, c) ==
    IF sa # sb /\ c = 0 THEN Zero
    ELSE FRound(IF sa = sb \/ c > 0 THEN sa ELSE sb,
                IF sa = sb THEN NAdd(ma, mb)
                ELSE NSub(IF c > 0 THEN ma ELSE mb, IF c > 0 THEN mb ELSE ma),
                e, st)

\* ma * 2^e with sign sa plus mb * 2^e with sign sb
AddExact(sa, ma, sb, mb, e, st) == AddSigned(sa, ma, sb, mb, e, st, NCmp(ma, mb))

\* hi + lo for hi.e >= lo.e, both finite and not 0.  If |lo| is below a
\* quarter of the last bit of hi (far), lo counts as nothing left out of hi
\* of the sign of hi, or as one quarter of that bit less and something left out
AddAligned(hi, lo, far) ==
    AddExact(hi.s, NShl(hi.m, IF far THEN 2 ELSE hi.e - lo.e),
             lo.s, IF far THEN (IF hi.s = lo.s THEN << >> ELSE <<1>>) ELSE lo.m,
             IF far THEN hi.e - 2 ELSE lo.e, far)

AddOrdered(hi, lo) == AddAligned(hi, lo, hi.e - lo.e > 64)

\* a + b
FAdd(a, b) ==
    IF IsNaN(a) \/ IsNaN(b) THEN NaN
    ELSE IF IsInf(a) THEN (IF IsInf(b) /\ a.s # b.s THEN NaN ELSE a)
    ELSE IF IsInf(b) THEN b
    ELSE IF IsZero(a) THEN (IF IsZero(b) /\ a.s # b.s THEN Zero ELSE b)
    ELSE IF IsZero(b) THEN a
    ELSE AddOrdered(IF a.e >= b.e THEN a ELSE b, IF a.e >= b.e THEN b ELSE a)

\* a - b
FSub(a, b) == FAdd(a, FNeg(b))

\* a * b
FMul(a, b) ==
    IF IsNaN(a) \/ IsNaN(b) THEN NaN
    ELSE IF IsInf(a) \/ IsInf(b)
         THEN (IF IsZero(a) \/ IsZero(b) THEN NaN ELSE Inf((a.s + b.s) % 2))
    ELSE FRound((a.s + b.s) % 2, NMul(a.m, b.m), a.e + b.e, FALSE)

\* a / b
FDiv(a, b) ==
    IF IsNaN(a) \/ IsNaN(b) THEN NaN
    ELSE IF IsInf(a) THEN (IF IsInf(b) THEN NaN ELSE Inf((a.s + b.s) % 2))
    ELSE IF IsZero(b) THEN (IF IsZero(a) THEN NaN ELSE Inf((a.s + b.s) % 2))
    ELSE IF IsInf(b) \/ IsZero(a) THEN [k |-> "num", s |-> (a.s + b.s) % 2, m |-> << >>, e |-> 0]
    ELSE QuotRound((a.s + b.s) % 2,
                   NDivMod(NShl(a.m, Max(0, 56 + NBits(b.m) - NBits(a.m))), b.m),
                   a.e - b.e - Max(0, 56 + NBits(b.m) - NBits(a.m)))

IntMin == -2147483647 - 1
IntMax == 2147483647

\* the integer part of |a|, a finite
Trunc(a) == IF a.e >= 0 THEN NShl(a.m, a.e) ELSE NShr(a.m, -a.e)

\* whether (int)a is defined: a is a number and its integer part is an int
FitsInt(a) ==
    /\ a.k = "num"
    /\ \/ NBits(Trunc(a)) <= 31
       \/ a.s = 1 /\ NBits(Trunc(a)) = 32 /\ NLowZero(Trunc(a), 31)

\* (int)a for an a with FitsInt(a): the truncation toward zero
FInt(a) ==
    IF NBits(Trunc(a)) > 31 THEN IntMin
    ELSE IF a.s = 1 THEN -NToInt(Trunc(a)) ELSE NToInt(Trunc(a))

\* What a build makes of (int)a for an a without FitsInt(a), where the
\* conversion is undefined: INT_MIN (the conversion instruction of the
\* processor), INT_MAX (a conversion the compiler folds), or the program is
\* killed (an index out of the table in the optimised loop of nmf).
Undefined ==
    { [k |-> "int", v |-> IntMin], [k |-> "int", v |-> IntMax], [k |-> "killed", v |-> 0] }

\* in place of the value of a call that did not return
Killed == [k |-> "killed", s |-> 0, m |-> << >>, e |-> 0]

\* |a|
FAbs(a) == [k |-> a.k, s |-> 0, m |-> a.m, e |-> a.e]

One == FromInt(1)
Two == FromInt(2)

\* (-1)^sa * ma * 2^ea + (-1)^sb * mb * 2^eb rounded, for ma # 0, ma and mb of
\* any length.  far = 1: the second term is not 0 and below 2^-56 of the last
\* bit of the first, and counts as in AddAligned; far = 2: so is the first to
\* the second; far = 0: neither
AddWide(sa, ma, ea, sb, mb, eb, far) ==
    AddExact(IF far = 2 THEN sb ELSE sa,
             IF far = 0 THEN NShl(ma, ea - Min(ea, eb))
             ELSE NShl(IF far = 2 THEN mb ELSE ma, 56),
             IF far = 2 THEN sa ELSE sb,
             IF far = 0 THEN NShl(mb, eb - Min(ea, eb))
             ELSE IF sa = sb THEN << >> ELSE <<1>>,
             IF far = 0 THEN Min(ea, eb) ELSE (IF far = 2 THEN eb ELSE ea) - 56,
             far # 0)

\* (-1)^s * m * 2^e + c rounded once, for m # 0 and c finite
FmaSum(s, m, e, c) ==
    IF IsZero(c) THEN AddWide(s, m, e, s, << >>, e, 0)
    ELSE AddWide(s, m, e, c.s, c.m, c.e,
                 IF c.e + NBits(c.m) <= e - 56 THEN 1
                 ELSE IF e + NBits(m) <= c.e - 56 THEN 2 ELSE 0)

\* a * b + c with one rounding: the fused multiply-add of the processor
FMA(a, b, c) ==
    IF IsNaN(a) \/ IsNaN(b) \/ IsNaN(c) THEN NaN
    ELSE IF IsInf(a) \/ IsInf(b)
         THEN (IF IsZero(a) \/ IsZero(b) THEN NaN
               ELSE IF IsInf(c) /\ c.s # (a.s + b.s) % 2 THEN NaN
               ELSE Inf((a.s + b.s) % 2))
    ELSE IF IsInf(c) THEN c
    ELSE IF IsZero(a) \/ IsZero(b)
         THEN (IF IsZero(c) /\ c.s # (a.s + b.s) % 2 THEN Zero ELSE c)
    ELSE FmaSum((a.s + b.s) % 2, NMul(a.m, b.m), a.e + b.e, c)

\* a with the sign of b
CopySign(a, b) == [k |-> a.k, s |-> b.s, m |-> a.m, e |-> a.e]

\* 2^n, -1022 <= n <= 1023
Pow2(n) == [k |-> "num", s |-> 0, m |-> <<0, 0, 0, 1024>>, e |-> n - 52]

\* a double of a table, <<s, the four digits of m, e>>
Entry(t) ==
    IF t[5] = 0 THEN [k |-> "num", s |-> t[1], m |-> << >>, e |-> 0]
    ELSE [k |-> "num", s |-> t[1], m |-> SubSeq(t, 2, 5), e |-> t[6]]

\* floor(log2 |a|) for a finite and not 0: the exponent field of a less 1023,
\* if a is normal
Exponent(a) == a.e + NBits(a.m) - 1

\* a finite and not 0 with m of 53 bits and e unbounded: a subnormal scaled
\* as the code scales it before it takes its exponent
Normal(a) == [k |-> "num", s |-> a.s, m |-> NShl(a.m, Precision - NBits(a.m)),
              e |-> a.e - (Precision - NBits(a.m))]

\* One assignment of the library's code to its variables v, a function from
\* their names to their values: ins = <<d, op, a, b>> or <<d, op, a, b, c>> is
\* d = a + b, a - b, a * b, a * b + c (fmadd), a * b - c (fmsub) or
\* -(a * b) + c (fnmadd).  The sum a + b is a * 1 + b and the product a * b
\* is a * b - 0, to the bit and to the sign of a zero
Step(v, ins) ==
    (ins[1] :> FMA(IF ins[2] = "fnmadd" THEN FNeg(v[ins[3]]) ELSE v[ins[3]],
                   IF ins[2] \in {"add", "sub"} THEN Pow2(0) ELSE v[ins[4]],
                   IF ins[2] = "add" THEN v[ins[4]]
                   ELSE IF ins[2] = "sub" THEN FNeg(v[ins[4]])
                   ELSE IF ins[2] = "mul" THEN NegZero
                   ELSE IF ins[2] = "fmsub" THEN FNeg(v[ins[5]])
                   ELSE v[ins[5]])) @@ v

RECURSIVE Exec(_, _, _)
\* the variables after the assignments code[i], code[i + 1], ... in turn
Exec(code, v, i) ==
    IF i > Len(code) THEN v
    ELSE Then(Step(v, code[i]), LAMBDA w : Exec(code, w, i + 1))

(***************************************************************************)
(* The functions of math.h the code calls: cos, sin, exp, pow, fabs        *)
(*                                                                         *)
(* The program runs with the GNU C library 2.36 on x86-64.  Its sin, cos,  *)
(* exp and pow are not correctly rounded: the error is below one unit in   *)
(* the last place, not below half of one.  They are computed here as the   *)
(* library computes them, operation by operation, in the variants it       *)
(* selects on a processor with fused multiply-add (sysdeps/ieee754/dbl-64: *)
(* s_sin.c, branred.c, e_exp.c, e_pow.c): an a * b + c whose product has   *)
(* no other use is one fmadd.  The straight-line parts of the library are  *)
(* lists of assignments, run by Exec.  All NaNs are one NaN.               *)
(***************************************************************************)
\* The constants of s_sin.c (usncs.h, trigo.h): pi/2 = hp0 + hp1 and
\* = mp1 + mp2 + pp3 + pp4, the coefficients of the polynomials, and the
\* doubles whose high word is a threshold of the code (k3feb6000 has the high
\* word 0x3feb6000 and the low word 0), with which |x| is compared
usncs ==
    [ hp0       |-> [k |-> "num", s |-> 0, m |-> <<11544, 4368, 8117, 1608>>, e |-> -52],   \* 0x1.921fb54442d18p+0
      hp1       |-> [k |-> "num", s |-> 0, m |-> <<7175, 3153, 8803, 1129>>, e |-> -106],   \* 0x1.1a62633145c07p-54
      s1        |-> [k |-> "num", s |-> 1, m |-> <<5461, 5461, 5461, 1365>>, e |-> -55],   \* -0x1.5555555555555p-3
      s2        |-> [k |-> "num", s |-> 0, m |-> <<3790, 1092, 4369, 1092>>, e |-> -59],   \* 0x1.1111111110ecep-7
      s3        |-> [k |-> "num", s |-> 1, m |-> <<2232, 10092, 6657, 1664>>, e |-> -65],   \* -0x1.a01a019db08b8p-13
      s4        |-> [k |-> "num", s |-> 0, m |-> <<16089, 11881, 7719, 1479>>, e |-> -71],   \* 0x1.71de27b9a7ed9p-19
      s5        |-> [k |-> "num", s |-> 1, m |-> <<8025, 3059, 8188, 1719>>, e |-> -78],   \* -0x1.addffc2fcdf59p-26
      big       |-> [k |-> "num", s |-> 0, m |-> <<0, 0, 0, 1536>>, e |-> -7],   \* 0x1.8000000000000p+45
      sn3       |-> [k |-> "num", s |-> 1, m |-> <<5397, 5461, 5461, 1365>>, e |-> -55],   \* -0x1.5555555555515p-3
      sn5       |-> [k |-> "num", s |-> 0, m |-> <<1839, 8358, 4366, 1092>>, e |-> -59],   \* 0x1.11110e829872fp-7
      cs2       |-> [k |-> "num", s |-> 0, m |-> <<0, 0, 0, 1024>>, e |-> -53],   \* 0x1.0000000000000p-1
      cs4       |-> [k |-> "num", s |-> 1, m |-> <<5429, 5461, 5461, 1365>>, e |-> -57],   \* -0x1.5555555555535p-5
      cs6       |-> [k |-> "num", s |-> 0, m |-> <<8761, 14183, 5822, 1456>>, e |-> -62],   \* 0x1.6c16bedd9e239p-10
      hpinv     |-> [k |-> "num", s |-> 0, m |-> <<2179, 14119, 13062, 1303>>, e |-> -53],   \* 0x1.45f306dc9c883p-1
      toint     |-> [k |-> "num", s |-> 0, m |-> <<0, 0, 0, 1536>>, e |-> 0],   \* 0x1.8000000000000p+52
      mp1       |-> [k |-> "num", s |-> 0, m |-> <<0, 8192, 8117, 1608>>, e |-> -52],   \* 0x1.921fb58000000p+0
      mp2       |-> [k |-> "num", s |-> 1, m |-> <<0, 12288, 10611, 1911>>, e |-> -79],   \* -0x1.dde973c000000p-27
      pp3       |-> [k |-> "num", s |-> 1, m |-> <<0, 8192, 15161, 1836>>, e |-> -107],   \* -0x1.cb3b398000000p-55
      pp4       |-> [k |-> "num", s |-> 1, m |-> <<11991, 3980, 2034, 1885>>, e |-> -135],   \* -0x1.d747f23e32ed7p-83
      taylor    |-> [k |-> "num", s |-> 0, m |-> <<9044, 11927, 3145, 1032>>, e |-> -55],   \* 0x1.020c49ba5e354p-3
      k3e400000 |-> [k |-> "num", s |-> 0, m |-> <<0, 0, 0, 1024>>, e |-> -79],   \* 0x1.0000000000000p-27
      k3e500000 |-> [k |-> "num", s |-> 0, m |-> <<0, 0, 0, 1024>>, e |-> -78],   \* 0x1.0000000000000p-26
      k3feb6000 |-> [k |-> "num", s |-> 0, m |-> <<0, 0, 0, 1752>>, e |-> -53],   \* 0x1.b600000000000p-1
      k400368fd |-> [k |-> "num", s |-> 0, m |-> <<0, 0, 4048, 1242>>, e |-> -51],   \* 0x1.368fd00000000p+1
      k419921fb |-> [k |-> "num", s |-> 0, m |-> <<0, 0, 8112, 1608>>, e |-> -26]]   \* 0x1.921fb00000000p+26

\* sincostab.tbl: for u = i/128, i = 0..109, sin(u) as sn + ssn and cos(u) as
\* cs + ccs, in the order sn, ssn, cs, ccs; a double is <<s, the four digits
\* of m, e>>
sincostab ==
    << <<0, 0, 0, 0, 0, 0>>,
       <<0, 0, 0, 0, 0, 0>>,
       <<0, 0, 0, 0, 1024, -52>>,
       <<0, 0, 0, 0, 0, 0>>,
       <<0, 12015, 10939, 16042, 2047, -60>>,
       <<1, 14204, 12702, 7726, 1937, -114>>,
       <<0, 5458, 85, 15360, 2047, -53>>,
       <<0, 11694, 101, 8218, 2002, -107>>,
       <<0, 11989, 11195, 15018, 2047, -59>>,
       <<1, 1911, 10876, 13881, 1194, -115>>,
       <<0, 5279, 1365, 12288, 2047, -53>>,
       <<0, 7923, 233, 8842, 1186, -107>>,
       <<0, 12885, 1036, 14080, 1535, -58>>,
       <<0, 13110, 1353, 8885, 1983, -116>>,
       <<0, 14310, 6911, 7168, 2047, -53>>,
       <<0, 14269, 8613, 11694, 1721, -107>>,
       <<0, 10351, 15291, 10922, 2047, -58>>,
       <<1, 2786, 11401, 111, 1845, -112>>,
       <<0, 10195, 5460, 1, 2047, -53>>,
       <<1, 7003, 2914, 5193, 1261, -107>>,
       <<0, 1493, 1205, 11051, 1279, -57>>,
       <<0, 7185, 244, 1346, 1339, -112>>,
       <<0, 10170, 4178, 7171, 2046, -53>>,
       <<0, 6591, 14769, 8011, 1636, -109>>,
       <<0, 15273, 203, 7169, 1535, -57>>,
       <<1, 6522, 4538, 7135, 1382, -111>>,
       <<0, 14751, 12279, 12294, 2045, -53>>,
       <<1, 3423, 402, 15190, 1580, -108>>,
       <<0, 11692, 8545, 1751, 1791, -57>>,
       <<0, 12854, 3951, 4048, 1593, -114>>,
       <<0, 14897, 8256, 15372, 2044, -53>>,
       <<0, 3686, 14192, 5851, 1313, -108>>,
       <<0, 3803, 15285, 10926, 2046, -57>>,
       <<1, 2921, 2465, 5843, 1204, -111>>,
       <<0, 13523, 5415, 21, 2044, -53>>,
       <<0, 623, 11877, 903, 1226, -107>>,
       <<0, 3055, 13826, 835, 1151, -56>>,
       <<1, 15951, 7118, 4910, 1999, -110>>,
       <<0, 12191, 2723, 15394, 2042, -53>>,
       <<0, 3191, 5077, 13459, 1508, -110>>,
       <<0, 13659, 2885, 11441, 1278, -56>>,
       <<1, 1676, 2661, 6421, 1608, -110>>,
       <<0, 12143, 1191, 12340, 2041, -53>>,
       <<1, 12183, 7973, 13363, 1839, -109>>,
       <<0, 14135, 13378, 4383, 1406, -56>>,
       <<1, 4354, 2810, 1264, 1030, -110>>,
       <<0, 13291, 3873, 7244, 2040, -53>>,
       <<1, 2562, 5617, 7312, 1386, -112>>,
       <<0, 4324, 3221, 12304, 1533, -56>>,
       <<0, 4122, 8193, 721, 1727, -112>>,
       <<0, 11163, 15865, 107, 2039, -53>>,
       <<0, 14555, 5335, 4139, 1222, -107>>,
       <<0, 4601, 13655, 2306, 1661, -56>>,
       <<0, 7617, 15024, 5847, 1178, -110>>,
       <<0, 8192, 11535, 7316, 2037, -53>>,
       <<1, 4857, 11582, 13964, 1209, -109>>,
       <<0, 14621, 5536, 7032, 1788, -56>>,
       <<0, 3272, 14249, 6209, 1956, -110>>,
       <<0, 6577, 58, 12488, 2035, -53>>,
       <<0, 1708, 6982, 15736, 1960, -109>>,
       <<0, 3302, 6919, 9969, 1915, -56>>,
       <<1, 5747, 16092, 14562, 1347, -111>>,
       <<0, 15496, 9030, 15623, 2033, -53>>,
       <<0, 13957, 4598, 7460, 1053, -107>>,
       <<0, 11830, 14875, 10990, 2042, -56>>,
       <<1, 12347, 13083, 2859, 1727, -111>>,
       <<0, 7123, 2549, 341, 2032, -53>>,
       <<0, 12216, 595, 3893, 1754, -107>>,
       <<0, 12753, 14197, 13176, 1084, -55>>,
       <<0, 3998, 2364, 1671, 1889, -109>>,
       <<0, 1685, 12280, 15794, 2029, -53>>,
       <<0, 6833, 5081, 6879, 1159, -107>>,
       <<0, 3759, 7871, 3389, 1148, -55>>,
       <<1, 10661, 9821, 14672, 1467, -109>>,
       <<0, 3027, 6385, 12834, 2027, -53>>,
       <<1, 10089, 3304, 11489, 1354, -110>>,
       <<0, 14479, 14634, 8837, 1211, -55>>,
       <<1, 8280, 6011, 4336, 1939, -109>>,
       <<0, 14066, 4208, 7846, 2025, -53>>,
       <<0, 3196, 13407, 6766, 1043, -111>>,
       <<0, 9931, 12661, 13074, 1274, -55>>,
       <<0, 2961, 11675, 5734, 1311, -109>>,
       <<0, 1064, 10739, 832, 2023, -53>>,
       <<0, 13410, 6381, 14000, 1814, -107>>,
       <<0, 12923, 14103, 16036, 1337, -55>>,
       <<0, 13052, 11009, 7602, 1618, -110>>,
       <<0, 3329, 221, 8180, 2020, -53>>,
       <<1, 7756, 13546, 1012, 1524, -109>>,
       <<0, 9971, 16004, 1276, 1401, -55>>,
       <<1, 2486, 6398, 1072, 1469, -109>>,
       <<0, 11510, 14459, 13506, 2017, -53>>,
       <<1, 11030, 1228, 4430, 1817, -107>>,
       <<0, 3404, 361, 1500, 1464, -55>>,
       <<1, 2368, 11783, 1480, 1227, -118>>,
       <<0, 7716, 15359, 431, 2015, -53>>,
       <<1, 177, 4565, 5564, 1597, -108>>,
       <<0, 12981, 16107, 258, 1527, -55>>,
       <<0, 6083, 2290, 13582, 1386, -111>>,
       <<0, 3612, 15995, 1725, 2012, -53>>,
       <<1, 7348, 12507, 3200, 1446, -107>>,
       <<0, 10564, 15338, 13874, 1589, -55>>,
       <<1, 14675, 2862, 14886, 1155, -109>>,
       <<0, 10957, 15072, 1007, 2009, -53>>,
       <<0, 10412, 2040, 172, 1452, -108>>,
       <<0, 786, 827, 9517, 1652, -55>>,
       <<0, 4989, 708, 984, 1649, -110>>,
       <<0, 10135, 13309, 14664, 2005, -53>>,
       <<0, 12757, 14350, 8403, 1934, -109>>,
       <<0, 1893, 9704, 3506, 1715, -55>>,
       <<1, 3563, 8027, 949, 1634, -110>>,
       <<0, 14969, 13432, 9931, 2002, -53>>,
       <<0, 15191, 14010, 7950, 1103, -107>>,
       <<0, 8601, 15217, 12164, 1777, -55>>,
       <<0, 3243, 10732, 6742, 1648, -109>>,
       <<0, 4462, 3791, 3196, 1999, -53>>,
       <<1, 13460, 2600, 9133, 1158, -109>>,
       <<0, 2467, 8714, 2661, 1840, -55>>,
       <<1, 15467, 12065, 3337, 1562, -109>>,
       <<0, 16365, 7503, 10845, 1995, -53>>,
       <<0, 5507, 15707, 533, 1841, -107>>,
       <<0, 9680, 16086, 7701, 1902, -55>>,
       <<1, 12226, 6961, 8717, 1227, -109>>,
       <<0, 9375, 537, 115, 1992, -53>>,
       <<0, 6219, 6918, 65, 1765, -108>>,
       <<0, 9635, 15915, 10839, 1964, -55>>,
       <<1, 11499, 15708, 8298, 1071, -109>>,
       <<0, 1851, 10006, 3776, 1988, -53>>,
       <<0, 4739, 6320, 1831, 1892, -107>>,
       <<0, 5495, 5068, 12013, 2026, -55>>,
       <<1, 12984, 568, 6277, 1111, -109>>,
       <<0, 11937, 15863, 5449, 1984, -53>>,
       <<0, 2813, 10135, 489, 1871, -107>>,
       <<0, 5468, 15764, 5579, 1044, -54>>,
       <<1, 3784, 14326, 3113, 1646, -108>>,
       <<0, 12070, 52, 5139, 1980, -53>>,
       <<1, 4978, 9083, 8624, 1194, -107>>,
       <<0, 9270, 15309, 4108, 1075, -54>>,
       <<1, 8885, 12879, 12448, 1662, -108>>,
       <<0, 12572, 12035, 2847, 1976, -53>>,
       <<1, 945, 751, 4664, 1791, -111>>,
       <<0, 7659, 10835, 1562, 1106, -54>>,
       <<1, 5540, 5848, 2075, 1786, -109>>,
       <<0, 12193, 4951, 14964, 1971, -53>>,
       <<1, 464, 11221, 4260, 1371, -110>>,
       <<0, 14454, 4890, 14294, 1136, -54>>,
       <<0, 4085, 14391, 1903, 1304, -108>>,
       <<0, 12200, 15835, 8724, 1967, -53>>,
       <<1, 5182, 2793, 14833, 1035, -107>>,
       <<0, 12086, 1130, 9505, 1167, -54>>,
       <<1, 16152, 3387, 2051, 1340, -108>>,
       <<0, 12111, 1774, 518, 1963, -53>>,
       <<0, 9613, 14929, 7507, 1200, -109>>,
       <<0, 13471, 4346, 3548, 1198, -54>>,
       <<0, 6151, 10187, 5001, 1109, -109>>,
       <<0, 3459, 3743, 6732, 1958, -53>>,
       <<1, 15592, 12052, 9393, 1161, -107>>,
       <<0, 8071, 4114, 12777, 1228, -54>>,
       <<0, 12332, 4144, 2923, 1923, -108>>,
       <<0, 10733, 15526, 10987, 1953, -53>>,
       <<0, 6311, 14061, 6063, 1614, -107>>,
       <<0, 5080, 7591, 4393, 1259, -54>>,
       <<0, 920, 4638, 5456, 1039, -115>>,
       <<0, 15680, 100, 13290, 1948, -53>>,
       <<1, 3603, 5403, 10419, 1424, -107>>,
       <<0, 9879, 6779, 11134, 1289, -54>>,
       <<1, 1439, 7191, 7285, 1986, -108>>,
       <<0, 10704, 4315, 13643, 1943, -53>>,
       <<0, 2236, 191, 12541, 1530, -107>>,
       <<0, 15648, 11324, 201, 1320, -54>>,
       <<0, 3757, 11970, 15270, 1544, -108>>,
       <<0, 1180, 11433, 12052, 1938, -53>>,
       <<1, 10291, 14889, 2562, 1443, -107>>,
       <<0, 10106, 15778, 4332, 1350, -54>>,
       <<0, 12531, 6075, 5909, 1741, -108>>,
       <<0, 5797, 6659, 8523, 1933, -53>>,
       <<1, 4663, 10245, 14650, 1181, -108>>,
       <<0, 13719, 16011, 7113, 1380, -54>>,
       <<0, 8395, 12543, 13498, 1521, -109>>,
       <<0, 5825, 9907, 3060, 1928, -53>>,
       <<1, 9068, 8125, 2796, 1432, -110>>,
       <<0, 1909, 9246, 8514, 1410, -54>>,
       <<0, 4403, 11938, 15744, 1735, -110>>,
       <<0, 7118, 10255, 12053, 1922, -53>>,
       <<0, 6886, 2524, 3696, 2042, -110>>,
       <<0, 6135, 10467, 8504, 1440, -54>>,
       <<1, 2733, 2321, 2336, 1890, -108>>,
       <<0, 1886, 15094, 2739, 1917, -53>>,
       <<1, 14020, 14748, 6311, 1931, -107>>,
       <<0, 597, 3304, 7054, 1470, -54>>,
       <<0, 6669, 15271, 15380, 1290, -108>>,
       <<0, 10454, 968, 7893, 1911, -53>>,
       <<1, 8895, 4270, 3213, 1952, -109>>,
       <<0, 532, 5593, 4133, 1500, -54>>,
       <<1, 14030, 1326, 11635, 1466, -109>>,
       <<0, 6418, 11877, 11134, 1905, -53>>,
       <<0, 3381, 7607, 13895, 1324, -110>>,
       <<0, 11598, 3873, 16096, 1529, -54>>,
       <<1, 6898, 11005, 15309, 1752, -108>>,
       <<0, 3715, 11810, 12470, 1899, -53>>,
       <<0, 7402, 11641, 2530, 1673, -107>>,
       <<0, 10569, 2569, 10145, 1559, -54>>,
       <<0, 11488, 11646, 233, 1577, -108>>,
       <<0, 10716, 15814, 11906, 1893, -53>>,
       <<0, 925, 5960, 8637, 2045, -107>>,
       <<0, 6447, 7634, 2634, 1589, -54>>,
       <<0, 8998, 10713, 8238, 1298, -108>>,
       <<0, 15178, 8069, 9449, 1887, -53>>,
       <<1, 11668, 5295, 14083, 1261, -109>>,
       <<0, 1733, 10197, 9918, 1618, -54>>,
       <<1, 16216, 14752, 3603, 1447, -108>>,
       <<0, 64, 7417, 5104, 1881, -53>>,
       <<1, 11319, 3375, 9060, 1496, -107>>,
       <<0, 1296, 2976, 15584, 1647, -54>>,
       <<0, 12452, 3202, 9114, 1063, -108>>,
       <<0, 6624, 1816, 15262, 1874, -53>>,
       <<0, 3937, 7702, 2999, 1997, -107>>,
       <<0, 3274, 13076, 3217, 1677, -54>>,
       <<1, 3789, 11587, 4323, 1676, -110>>,
       <<0, 15366, 13877, 7160, 1868, -53>>,
       <<0, 3037, 551, 3539, 1944, -108>>,
       <<0, 4727, 3714, 5558, 1706, -54>>,
       <<1, 897, 1264, 5099, 1418, -109>>,
       <<0, 5360, 2550, 13575, 1861, -53>>,
       <<0, 9358, 15110, 4785, 1077, -107>>,
       <<0, 5655, 5320, 6192, 1735, -54>>,
       <<1, 13593, 11879, 9260, 1720, -108>>,
       <<0, 11679, 10570, 1743, 1855, -53>>,
       <<0, 10765, 572, 6997, 1581, -107>>,
       <<0, 11331, 878, 5091, 1764, -54>>,
       <<1, 16369, 15792, 2770, 1934, -108>>,
       <<0, 741, 618, 4441, 1848, -53>>,
       <<0, 4250, 11460, 5019, 1148, -107>>,
       <<0, 163, 7877, 2225, 1793, -54>>,
       <<0, 8103, 5626, 15975, 1127, -109>>,
       <<0, 5934, 2762, 5290, 1841, -53>>,
       <<0, 15000, 11936, 8546, 1339, -109>>,
       <<0, 4510, 12799, 13950, 1821, -54>>,
       <<1, 6182, 10485, 5329, 1964, -110>>,
       <<0, 15627, 16153, 4297, 1834, -53>>,
       <<1, 13410, 8568, 10260, 1306, -109>>,
       <<0, 9503, 3922, 7470, 1850, -54>>,
       <<1, 8856, 2923, 2209, 1215, -109>>,
       <<0, 6788, 9016, 1471, 1827, -53>>,
       <<0, 291, 1380, 15642, 1708, -108>>,
       <<0, 13921, 4113, 15523, 1878, -54>>,
       <<0, 668, 7551, 9290, 1186, -108>>,
       <<0, 9531, 559, 13202, 1819, -53>>,
       <<1, 6978, 11947, 7615, 1488, -107>>,
       <<0, 7322, 5322, 5313, 1907, -54>>,
       <<0, 15770, 1479, 3182, 1077, -108>>,
       <<0, 5982, 11820, 6728, 1812, -53>>,
       <<1, 10368, 11882, 15171, 1134, -109>>,
       <<0, 10857, 1376, 9580, 1935, -54>>,
       <<1, 14479, 615, 2081, 1065, -110>>,
       <<0, 7553, 119, 14827, 1804, -53>>,
       <<1, 1472, 14859, 12126, 1834, -107>>,
       <<0, 1520, 4396, 11911, 1963, -54>>,
       <<1, 637, 12908, 6979, 1506, -110>>,
       <<0, 15696, 6509, 4736, 1797, -53>>,
       <<1, 10280, 3147, 8465, 1572, -107>>,
       <<0, 14715, 12051, 12278, 1991, -54>>,
       <<0, 4700, 8861, 8495, 1116, -108>>,
       <<0, 13622, 8313, 9232, 1789, -53>>,
       <<0, 10657, 6306, 15729, 1758, -107>>,
       <<0, 15511, 7594, 10654, 2019, -54>>,
       <<0, 163, 15540, 5386, 1654, -110>>,
       <<0, 5365, 1034, 11939, 1781, -53>>,
       <<0, 4253, 8752, 15308, 1222, -108>>,
       <<0, 13690, 9035, 7010, 2047, -54>>,
       <<0, 7018, 14913, 10642, 2002, -109>>,
       <<0, 3890, 14732, 12863, 1773, -53>>,
       <<0, 2617, 5300, 15652, 1482, -108>>,
       <<0, 6485, 10010, 8851, 1037, -53>>,
       <<1, 15105, 8421, 3287, 1206, -107>>,
       <<0, 1038, 15714, 12014, 1765, -53>>,
       <<0, 11744, 7742, 9164, 1302, -110>>,
       <<0, 11867, 6737, 4968, 1051, -53>>,
       <<0, 16155, 5347, 6884, 1277, -107>>,
       <<0, 1218, 4828, 9400, 1757, -53>>,
       <<1, 14491, 2156, 1164, 2006, -107>>,
       <<0, 4097, 14968, 33, 1065, -53>>,
       <<1, 5366, 1252, 9274, 1469, -107>>,
       <<0, 4174, 1072, 5028, 1749, -53>>,
       <<0, 14870, 7177, 14228, 1599, -110>>,
       <<0, 10030, 6869, 10418, 1078, -53>>,
       <<1, 10505, 763, 3567, 1686, -107>>,
       <<0, 2376, 8818, 15290, 1740, -53>>,
       <<0, 11433, 13437, 10833, 1961, -107>>,
       <<0, 7227, 4826, 3340, 1092, -53>>,
       <<0, 6529, 8706, 6297, 1892, -107>>,
       <<0, 9414, 1418, 7428, 1732, -53>>,
       <<0, 194, 15343, 5473, 1143, -108>>,
       <<0, 16258, 15917, 11553, 1105, -53>>,
       <<0, 14760, 14492, 5429, 1790, -108>>,
       <<0, 4725, 3119, 14217, 1723, -53>>,
       <<1, 12180, 9681, 13863, 2016, -108>>,
       <<0, 11696, 15547, 2277, 1119, -53>>,
       <<0, 9352, 184, 9585, 1239, -109>>,
       <<0, 7653, 7130, 2898, 1715, -53>>,
       <<0, 14028, 14170, 13992, 1598, -107>>,
       <<0, 12253, 12992, 8266, 1132, -53>>,
       <<1, 13823, 814, 4295, 1990, -110>>,
       <<0, 2323, 8386, 6248, 1706, -53>>,
       <<1, 4208, 7989, 15712, 1760, -115>>,
       <<0, 5964, 2265, 13123, 1145, -53>>,
       <<0, 7514, 5072, 9210, 1162, -108>>,
       <<0, 8237, 3535, 7892, 1697, -53>>,
       <<0, 1938, 8571, 8291, 1647, -109>>,
       <<0, 5327, 11278, 449, 1159, -53>>,
       <<0, 10801, 11406, 13092, 1942, -110>>,
       <<0, 1711, 7318, 7838, 1688, -53>>,
       <<0, 1343, 3061, 13070, 1376, -107>>,
       <<0, 3003, 3554, 3001, 1172, -53>>,
       <<0, 15566, 4446, 15618, 1960, -108>>,
       <<0, 15823, 3402, 6096, 1679, -53>>,
       <<1, 5737, 12934, 7086, 1443, -107>>,
       <<0, 8295, 9310, 4380, 1185, -53>>,
       <<1, 11120, 9861, 7965, 1031, -107>>,
       <<0, 9285, 9915, 2674, 1670, -53>>,
       <<0, 856, 3504, 8791, 1623, -112>>,
       <<0, 542, 10785, 4574, 1198, -53>>,
       <<1, 10928, 11397, 14109, 2024, -107>>,
       <<0, 12165, 13892, 13966, 1660, -53>>,
       <<1, 5638, 5604, 8204, 1140, -107>>,
       <<0, 12418, 7784, 3570, 1211, -53>>,
       <<0, 9086, 927, 5502, 1869, -107>>,
       <<0, 7772, 4041, 7214, 1651, -53>>,
       <<0, 16226, 2660, 6417, 1278, -107>>,
       <<0, 15439, 1314, 1355, 1224, -53>>,
       <<0, 4955, 9576, 13344, 2010, -107>>,
       <<0, 9492, 3497, 15194, 1641, -53>>,
       <<0, 10153, 12926, 11516, 1480, -107>>,
       <<0, 871, 9976, 14299, 1236, -53>>,
       <<0, 240, 11201, 10215, 1740, -109>>,
       <<0, 4880, 4280, 5148, 1632, -53>>,
       <<0, 12429, 4643, 16256, 1863, -107>>,
       <<0, 10283, 4440, 9623, 1249, -53>>,
       <<1, 1960, 9452, 15066, 1091, -108>>,
       <<0, 12797, 50, 9854, 1622, -53>>,
       <<1, 1581, 2174, 12250, 1071, -107>>,
       <<0, 1034, 5770, 3697, 1262, -53>>,
       <<1, 12411, 8011, 9530, 1629, -108>>,
       <<0, 7826, 2486, 12937, 1612, -53>>,
       <<1, 3290, 3456, 14080, 1773, -107>>,
       <<0, 5434, 3507, 12893, 1274, -53>>,
       <<1, 4032, 1372, 5902, 1785, -110>>,
       <<0, 6903, 8503, 14407, 1602, -53>>,
       <<1, 15239, 10980, 11024, 1087, -108>>,
       <<0, 10128, 4841, 4430, 1287, -53>>,
       <<0, 11509, 2591, 2301, 1304, -107>>,
       <<0, 6865, 246, 14275, 1592, -53>>,
       <<1, 3064, 5365, 14923, 1304, -109>>,
       <<0, 14443, 1852, 11064, 1299, -53>>,
       <<1, 5381, 14761, 5825, 1275, -107>>,
       <<0, 2304, 10615, 12549, 1582, -53>>,
       <<0, 13505, 14929, 15875, 1560, -107>>,
       <<0, 5535, 4292, 14, 1312, -53>>,
       <<1, 11536, 4495, 5287, 1734, -107>>,
       <<0, 1823, 8566, 9241, 1572, -53>>,
       <<0, 11652, 4175, 3484, 1810, -107>>,
       <<0, 14177, 6826, 4036, 1324, -53>>,
       <<0, 1434, 3635, 8279, 1078, -113>>,
       <<0, 9926, 13790, 4360, 1562, -53>>,
       <<0, 10717, 2815, 4094, 1230, -108>>,
       <<0, 5403, 5435, 6734, 1336, -53>>,
       <<1, 1898, 9951, 4856, 1682, -107>>,
       <<0, 7328, 14784, 14301, 1551, -53>>,
       <<1, 1768, 623, 11510, 1108, -111>>,
       <<0, 13596, 13804, 8095, 1348, -53>>,
       <<1, 2097, 1810, 3718, 1392, -107>>,
       <<0, 11613, 1605, 6307, 1541, -53>>,
       <<1, 10462, 11784, 2960, 1914, -109>>,
       <<0, 14116, 14190, 8108, 1360, -53>>,
       <<0, 5009, 5251, 11304, 1164, -108>>,
       <<0, 5256, 15016, 13154, 1530, -53>>,
       <<0, 5535, 4758, 5722, 1671, -110>>,
       <<0, 6579, 6581, 6761, 1372, -53>>,
       <<0, 12696, 13374, 948, 1825, -110>>,
       <<0, 9551, 15399, 2087, 1520, -53>>,
       <<1, 11880, 7339, 15725, 1820, -109>>,
       <<0, 14866, 8708, 4041, 1384, -53>>,
       <<1, 8827, 8016, 11819, 1888, -107>>,
       <<0, 9539, 13821, 5884, 1509, -53>>,
       <<1, 6884, 10065, 10094, 1708, -107>>,
       <<0, 3853, 6910, 16321, 1395, -53>>,
       <<0, 6026, 941, 2871, 1627, -107>>,
       <<0, 8479, 6484, 8172, 1498, -53>>,
       <<1, 10437, 15921, 15708, 1545, -109>>,
       <<0, 7767, 5290, 10821, 1407, -53>>,
       <<0, 8375, 8120, 11503, 1069, -107>>,
       <<0, 15265, 7483, 8961, 1487, -53>>,
       <<1, 11615, 13906, 15075, 1396, -109>>,
       <<0, 11385, 9350, 3913, 1419, -53>>,
       <<1, 9242, 5848, 6533, 1975, -107>>,
       <<0, 13944, 16029, 8262, 1476, -53>>,
       <<0, 7297, 5130, 6922, 1289, -107>>,
       <<0, 10069, 9615, 11970, 1430, -53>>,
       <<0, 1340, 11716, 12182, 1097, -107>>,
       <<0, 13662, 51, 6088, 1465, -53>>,
       <<0, 4262, 15215, 10349, 1408, -107>>,
       <<0, 2863, 14413, 2212, 1442, -53>>,
       <<1, 5606, 6419, 15671, 1453, -107>>,
       <<0, 15197, 10875, 2447, 1454, -53>>,
       <<0, 13490, 6963, 11384, 1110, -108>>,
       <<0, 538, 734, 7397, 1453, -53>>,
       <<1, 11791, 15808, 4440, 1397, -109>>,
       <<0, 8787, 2989, 13737, 1442, -53>>,
       <<1, 14492, 9751, 4525, 1642, -107>>,
       <<0, 15841, 12546, 11127, 1464, -53>>,
       <<1, 11603, 5630, 12952, 1081, -108>>,
       <<0, 3258, 14254, 7199, 1431, -53>>,
       <<1, 15479, 7373, 436, 1631, -110>>,
       <<0, 3136, 13354, 13393, 1475, -53>>,
       <<0, 14093, 8725, 11747, 1631, -109>>,
       <<0, 4551, 2054, 15615, 1419, -53>>,
       <<0, 5871, 9565, 5176, 1892, -109>>,
       <<0, 9592, 890, 14184, 1486, -53>>,
       <<1, 4770, 7024, 2096, 1161, -108>>,
       <<0, 9183, 7125, 6226, 1408, -53>>,
       <<0, 13008, 912, 2654, 1307, -107>>,
       <<0, 13604, 7134, 13487, 1497, -53>>,
       <<0, 1192, 4786, 5113, 1959, -108>>,
       <<0, 12666, 6087, 11813, 1396, -53>>,
       <<0, 2347, 4898, 5136, 1036, -107>>,
       <<0, 7506, 16, 11293, 1508, -53>>,
       <<1, 5355, 15053, 12382, 1711, -107>>,
       <<0, 119, 9737, 16003, 1384, -53>>,
       <<0, 15970, 7526, 2722, 1290, -107>>,
       <<0, 13250, 14498, 7589, 1519, -53>>,
       <<0, 915, 13108, 4503, 1716, -111>>,
       <<0, 1010, 13882, 2424, 1373, -53>>,
       <<0, 11555, 15520, 12618, 2001, -107>>,
       <<0, 14681, 5133, 2367, 1530, -53>>,
       <<0, 3148, 10644, 12218, 1083, -107>>,
       <<0, 11429, 15716, 3856, 1361, -53>>,
       <<1, 9775, 6942, 11918, 1950, -107>>,
       <<0, 2980, 9913, 11998, 1540, -53>>,
       <<1, 11738, 15616, 12461, 1504, -107>>,
       <<0, 13274, 13807, 3927, 1349, -53>>,
       <<0, 601, 463, 8456, 1310, -108>> >>

\* The constants of branred.h
branred_c ==
    [ tm600 |-> [k |-> "num", s |-> 0, m |-> <<0, 0, 0, 1024>>, e |-> -652],   \* 0x1.0000000000000p-600
      split |-> [k |-> "num", s |-> 0, m |-> <<0, 2048, 0, 1024>>, e |-> -25],   \* 0x1.0000002000000p+27
      big   |-> [k |-> "num", s |-> 0, m |-> <<0, 0, 0, 1536>>, e |-> 0],   \* 0x1.8000000000000p+52
      big1  |-> [k |-> "num", s |-> 0, m |-> <<0, 0, 0, 1536>>, e |-> 2],   \* 0x1.8000000000000p+54
      mp1   |-> [k |-> "num", s |-> 0, m |-> <<0, 8192, 8117, 1608>>, e |-> -52],   \* 0x1.921fb58000000p+0
      mp2   |-> [k |-> "num", s |-> 1, m |-> <<0, 0, 10612, 1911>>, e |-> -79],   \* -0x1.dde9740000000p-27
      hp0   |-> [k |-> "num", s |-> 0, m |-> <<11544, 4368, 8117, 1608>>, e |-> -52],   \* 0x1.921fb54442d18p+0
      hp1   |-> [k |-> "num", s |-> 0, m |-> <<7175, 3153, 8803, 1129>>, e |-> -106],   \* 0x1.1a62633145c07p-54
      half  |-> [k |-> "num", s |-> 0, m |-> <<0, 0, 0, 1024>>, e |-> -53]]   \* 0x1.0000000000000p-1

\* branred.h: the digits of 2/pi in base 2^24
toverp ==
    << <<0, 0, 0, 13062, 1303, -29>>,
       <<0, 0, 0, 14608, 1764, -30>>,
       <<0, 0, 0, 8128, 1354, -32>>,
       <<0, 0, 0, 16008, 1258, -31>>,
       <<0, 0, 0, 10682, 1961, -29>>,
       <<0, 0, 0, 14020, 1542, -29>>,
       <<0, 0, 0, 12920, 1196, -29>>,
       <<0, 0, 0, 260, 1081, -30>>,
       <<0, 0, 0, 8902, 2034, -29>>,
       <<0, 0, 0, 15734, 1374, -29>>,
       <<0, 0, 0, 878, 1579, -29>>,
       <<0, 0, 0, 12752, 1165, -31>>,
       <<0, 0, 0, 14152, 1060, -30>>,
       <<0, 0, 0, 3218, 1792, -29>>,
       <<0, 0, 0, 4168, 1501, -31>>,
       <<0, 0, 0, 9272, 1676, -29>>,
       <<0, 0, 0, 15318, 2032, -29>>,
       <<0, 0, 0, 4752, 1836, -32>>,
       <<0, 0, 0, 15824, 1337, -29>>,
       <<0, 0, 0, 11242, 1041, -29>>,
       <<0, 0, 0, 6688, 1495, -31>>,
       <<0, 0, 0, 4920, 1063, -29>>,
       <<0, 0, 0, 6864, 1794, -30>>,
       <<0, 0, 0, 14596, 1527, -30>>,
       <<0, 0, 0, 3760, 1842, -31>>,
       <<0, 0, 0, 6808, 1840, -31>>,
       <<0, 0, 0, 9440, 1854, -31>>,
       <<0, 0, 0, 16150, 1058, -29>>,
       <<0, 0, 0, 12880, 1519, -29>>,
       <<0, 0, 0, 16320, 1891, -31>>,
       <<0, 0, 0, 16316, 1215, -29>>,
       <<0, 0, 0, 960, 1432, -34>>,
       <<0, 0, 0, 7714, 1913, -29>>,
       <<0, 0, 0, 13332, 1114, -29>>,
       <<0, 0, 0, 15796, 1745, -30>>,
       <<0, 0, 0, 13944, 1743, -31>>,
       <<0, 0, 0, 6216, 1273, -31>>,
       <<0, 0, 0, 7820, 1466, -29>>,
       <<0, 0, 0, 13552, 2028, -31>>,
       <<0, 0, 0, 10420, 1534, -30>>,
       <<0, 0, 0, 7912, 1874, -30>>,
       <<0, 0, 0, 6090, 1599, -29>>,
       <<0, 0, 0, 13946, 1931, -29>>,
       <<0, 0, 0, 15808, 1849, -34>>,
       <<0, 0, 0, 9508, 1106, -29>>,
       <<0, 0, 0, 6134, 1875, -29>>,
       <<0, 0, 0, 1148, 1531, -30>>,
       <<0, 0, 0, 14864, 1130, -29>>,
       <<0, 0, 0, 3264, 1376, -30>>,
       <<0, 0, 0, 12780, 1135, -30>>,
       <<0, 0, 0, 12224, 1722, -30>>,
       <<0, 0, 0, 14400, 1661, -29>>,
       <<0, 0, 0, 10348, 1239, -29>>,
       <<0, 0, 0, 7728, 1898, -32>>,
       <<0, 0, 0, 700, 1163, -29>>,
       <<0, 0, 0, 13840, 1840, -29>>,
       <<0, 0, 0, 9748, 1625, -30>>,
       <<0, 0, 0, 4736, 1521, -30>>,
       <<0, 0, 0, 564, 1668, -30>>,
       <<0, 0, 0, 12544, 2046, -29>>,
       <<0, 0, 0, 3228, 1239, -30>>,
       <<0, 0, 0, 12336, 1568, -31>>,
       <<0, 0, 0, 11424, 1365, -32>>,
       <<0, 0, 0, 8996, 1850, -30>>,
       <<0, 0, 0, 2540, 1550, -30>>,
       <<0, 0, 0, 6358, 1540, -29>>,
       <<0, 0, 0, 4196, 1148, -30>>,
       <<0, 0, 0, 3994, 1563, -29>>,
       <<0, 0, 0, 4114, 1767, -29>>,
       <<0, 0, 0, 6856, 1360, -31>>,
       <<0, 0, 0, 11542, 1571, -29>>,
       <<0, 0, 0, 14668, 1200, -29>>,
       <<0, 0, 0, 7816, 1773, -29>>,
       <<0, 0, 0, 11826, 1674, -29>>,
       <<0, 0, 0, 10560, 1342, -34>> >>

\* e_exp_data.c, N = 128: N/ln2, 1.5 * 2^52, -ln2/N in two parts, and the
\* coefficients of exp(r) - 1 - r
exp_data ==
    [ InvLn2N   |-> [k |-> "num", s |-> 0, m |-> <<766, 5294, 5238, 1477>>, e |-> -45],   \* 0x1.71547652b82fep+7
      Shift     |-> [k |-> "num", s |-> 0, m |-> <<0, 0, 0, 1536>>, e |-> 0],   \* 0x1.8000000000000p+52
      NegLn2hiN |-> [k |-> "num", s |-> 1, m |-> <<0, 15336, 9263, 1419>>, e |-> -60],   \* -0x1.62e42fefa0000p-8
      NegLn2loN |-> [k |-> "num", s |-> 1, m |-> <<15162, 12920, 14763, 1853>>, e |-> -99],   \* -0x1.cf79abc9e3b3ap-47
      C2        |-> [k |-> "num", s |-> 0, m |-> <<15805, 16383, 16383, 2047>>, e |-> -54],   \* 0x1.ffffffffffdbdp-2
      C3        |-> [k |-> "num", s |-> 0, m |-> <<5180, 5461, 5461, 1365>>, e |-> -55],   \* 0x1.555555555543cp-3
      C4        |-> [k |-> "num", s |-> 0, m |-> <<11153, 15452, 5468, 1365>>, e |-> -57],   \* 0x1.55555cf172b91p-5
      C5        |-> [k |-> "num", s |-> 0, m |-> <<4119, 7827, 4374, 1092>>, e |-> -59]]   \* 0x1.1111167a4d017p-7

\* e_exp_data.c, tab: for i = 0..127 the tail and the double of 2^(i/128),
\* 2^(i/128) = scale * (1 + tail); the table of the library holds the bits
\* of scale less i * 2^45, here it holds scale
exp_tab ==
    << <<<<0, 0, 0, 0, 0, 0>>, <<0, 0, 0, 0, 1024, -52>>>>,
       <<<<0, 16238, 10786, 13553, 1742, -106>>, <<0, 13109, 10220, 9178, 1029, -52>>>>,
       <<<<1, 7261, 13155, 313, 1112, -108>>, <<0, 97, 14814, 2467, 1035, -52>>>>,
       <<<<1, 9937, 541, 10145, 1047, -106>>, <<0, 16261, 8633, 12638, 1040, -52>>>>,
       <<<<0, 13843, 5535, 9507, 1844, -107>>, <<0, 1396, 3158, 6925, 1046, -52>>>>,
       <<<<1, 3834, 4070, 10242, 1779, -107>>, <<0, 14046, 10103, 1714, 1052, -52>>>>,
       <<<<0, 2145, 1947, 13542, 1085, -109>>, <<0, 7112, 8662, 13393, 1057, -52>>>>,
       <<<<0, 5017, 11471, 15941, 1064, -106>>, <<0, 13187, 11035, 9196, 1063, -52>>>>,
       <<<<0, 15213, 13837, 10853, 1510, -106>>, <<0, 2319, 13286, 5510, 1069, -52>>>>,
       <<<<0, 12284, 3063, 4521, 1965, -107>>, <<0, 2039, 11721, 2338, 1075, -52>>>>,
       <<<<0, 7377, 190, 9175, 1967, -112>>, <<0, 4514, 2895, 16067, 1080, -52>>>>,
       <<<<1, 11787, 9793, 13128, 1664, -109>>, <<0, 4891, 16379, 13930, 1086, -52>>>>,
       <<<<1, 15630, 10430, 9506, 1365, -106>>, <<0, 6993, 73, 12317, 1092, -52>>>>,
       <<<<1, 10837, 12603, 3832, 1056, -110>>, <<0, 12748, 432, 11228, 1098, -52>>>>,
       <<<<1, 13334, 10071, 4667, 1138, -106>>, <<0, 11744, 15012, 10666, 1104, -52>>>>,
       <<<<0, 5551, 9585, 15934, 1076, -107>>, <<0, 3665, 8854, 10636, 1110, -52>>>>,
       <<<<1, 4936, 10902, 12638, 1030, -107>>, <<0, 4475, 12789, 11139, 1116, -52>>>>,
       <<<<1, 12861, 6008, 16133, 1991, -107>>, <<0, 3562, 8754, 12179, 1122, -52>>>>,
       <<<<0, 5055, 15437, 6339, 1762, -107>>, <<0, 2933, 11711, 13758, 1128, -52>>>>,
       <<<<1, 11046, 6215, 6599, 1462, -106>>, <<0, 7380, 4113, 15880, 1134, -52>>>>,
       <<<<0, 12128, 14568, 3955, 1723, -106>>, <<0, 14762, 1442, 2163, 1141, -52>>>>,
       <<<<1, 14493, 11800, 14380, 2041, -107>>, <<0, 6429, 3059, 5378, 1147, -52>>>>,
       <<<<0, 909, 4763, 13332, 1691, -107>>, <<0, 3286, 8586, 9144, 1153, -52>>>>,
       <<<<0, 1149, 912, 8283, 1054, -107>>, <<0, 7318, 1527, 13465, 1159, -52>>>>,
       <<<<0, 10388, 3746, 12254, 1443, -106>>, <<0, 8760, 14805, 1958, 1166, -52>>>>,
       <<<<0, 2173, 2513, 8591, 1495, -107>>, <<0, 9791, 16074, 7396, 1172, -52>>>>,
       <<<<0, 10226, 8319, 12985, 1041, -107>>, <<0, 15581, 6025, 13398, 1178, -52>>>>,
       <<<<1, 2142, 15812, 1971, 1454, -106>>, <<0, 9089, 2005, 3582, 1185, -52>>>>,
       <<<<0, 11057, 13350, 15894, 1213, -107>>, <<0, 7905, 5247, 10719, 1191, -52>>>>,
       <<<<1, 16378, 10686, 6577, 1864, -112>>, <<0, 6544, 875, 2045, 1198, -52>>>>,
       <<<<0, 2740, 2096, 14375, 1741, -107>>, <<0, 779, 7056, 10330, 1204, -52>>>>,
       <<<<0, 2959, 10043, 2344, 1925, -109>>, <<0, 12118, 9464, 2810, 1211, -52>>>>,
       <<<<0, 11190, 14018, 5972, 1235, -107>>, <<0, 14101, 10438, 12256, 1217, -52>>>>,
       <<<<0, 13388, 2737, 8222, 1424, -107>>, <<0, 6193, 12595, 5903, 1224, -52>>>>,
       <<<<0, 14410, 14159, 5013, 2039, -107>>, <<0, 5887, 2448, 139, 1231, -52>>>>,
       <<<<1, 6916, 11833, 14339, 1448, -107>>, <<0, 8177, 15946, 11349, 1237, -52>>>>,
       <<<<1, 4200, 12589, 11996, 1170, -106>>, <<0, 10699, 7402, 6771, 1244, -52>>>>,
       <<<<1, 11662, 11588, 16257, 1601, -106>>, <<0, 6246, 13335, 2790, 1251, -52>>>>,
       <<<<1, 14034, 14928, 7811, 1140, -108>>, <<0, 8183, 5014, 15795, 1257, -52>>>>,
       <<<<1, 6933, 3896, 4507, 1606, -106>>, <<0, 10469, 3150, 13020, 1264, -52>>>>,
       <<<<0, 3181, 7337, 13450, 1383, -107>>, <<0, 13346, 12360, 10852, 1271, -52>>>>,
       <<<<1, 10634, 10401, 9735, 1220, -106>>, <<0, 28, 4786, 9296, 1278, -52>>>>,
       <<<<1, 2395, 8286, 14580, 1577, -110>>, <<0, 11818, 2012, 8354, 1285, -52>>>>,
       <<<<1, 6683, 7462, 2486, 1803, -108>>, <<0, 10391, 9538, 8029, 1292, -52>>>>,
       <<<<0, 11281, 778, 16086, 1240, -111>>, <<0, 2349, 390, 8326, 1299, -52>>>>,
       <<<<0, 9455, 11289, 8339, 1433, -106>>, <<0, 87, 13428, 9246, 1306, -52>>>>,
       <<<<0, 889, 10884, 3613, 1971, -109>>, <<0, 15568, 5892, 10795, 1313, -52>>>>,
       <<<<0, 4656, 15420, 14563, 1279, -106>>, <<0, 5086, 863, 12975, 1320, -52>>>>,
       <<<<0, 12208, 11754, 3307, 1444, -108>>, <<0, 10791, 5336, 15789, 1327, -52>>>>,
       <<<<0, 8311, 11603, 7134, 1223, -106>>, <<0, 7437, 10231, 2857, 1335, -52>>>>,
       <<<<1, 9102, 454, 832, 2021, -107>>, <<0, 11431, 6772, 6951, 1342, -52>>>>,
       <<<<1, 9033, 12878, 11469, 1527, -107>>, <<0, 9794, 2877, 11690, 1349, -52>>>>,
       <<<<1, 14431, 13372, 11371, 1591, -108>>, <<0, 3970, 6773, 693, 1357, -52>>>>,
       <<<<1, 7414, 12781, 9326, 1412, -107>>, <<0, 4623, 10614, 6732, 1364, -52>>>>,
       <<<<0, 6030, 9207, 4177, 1229, -106>>, <<0, 10202, 6868, 13427, 1371, -52>>>>,
       <<<<0, 6917, 15914, 2930, 1766, -108>>, <<0, 2045, 4703, 4397, 1379, -52>>>>,
       <<<<0, 5129, 2161, 15902, 1048, -106>>, <<0, 5161, 13601, 12413, 1386, -52>>>>,
       <<<<0, 1770, 103, 14421, 1329, -112>>, <<0, 1719, 10597, 4712, 1394, -52>>>>,
       <<<<0, 53, 11667, 11874, 1292, -106>>, <<0, 8520, 5812, 14065, 1401, -52>>>>,
       <<<<1, 13983, 1637, 1190, 1849, -107>>, <<0, 7177, 9691, 7707, 1409, -52>>>>,
       <<<<1, 3496, 12221, 15443, 1804, -107>>, <<0, 5509, 233, 2027, 1417, -52>>>>,
       <<<<1, 10670, 9391, 14216, 1300, -107>>, <<0, 800, 4915, 13411, 1424, -52>>>>,
       <<<<1, 6232, 8537, 11735, 1267, -106>>, <<0, 8741, 2388, 9096, 1432, -52>>>>,
       <<<<0, 6500, 504, 2728, 1476, -110>>, <<0, 10611, 4402, 5469, 1440, -52>>>>,
       <<<<1, 8744, 15736, 16123, 1260, -106>>, <<0, 15309, 6652, 2534, 1448, -52>>>>,
       <<<<1, 14722, 7378, 10968, 1668, -109>>, <<0, 6847, 5167, 295, 1456, -52>>>>,
       <<<<1, 10734, 8630, 16123, 1241, -109>>, <<0, 6703, 12692, 15139, 1463, -52>>>>,
       <<<<1, 2129, 4994, 981, 1079, -107>>, <<0, 5252, 9542, 14303, 1471, -52>>>>,
       <<<<1, 16079, 14696, 13895, 1543, -108>>, <<0, 8052, 9137, 14174, 1479, -52>>>>,
       <<<<1, 15792, 557, 9388, 1467, -107>>, <<0, 372, 8854, 14756, 1487, -52>>>>,
       <<<<1, 9866, 14679, 4897, 1414, -107>>, <<0, 10185, 6409, 16053, 1495, -52>>>>,
       <<<<0, 5331, 14375, 3253, 1063, -106>>, <<0, 7487, 16249, 1684, 1504, -52>>>>,
       <<<<1, 9501, 9526, 11723, 1740, -108>>, <<0, 391, 4012, 4423, 1512, -52>>>>,
       <<<<0, 107, 4511, 4053, 1339, -106>>, <<0, 306, 1219, 7888, 1520, -52>>>>,
       <<<<0, 11349, 12121, 15898, 1402, -109>>, <<0, 3682, 6973, 12083, 1528, -52>>>>,
       <<<<1, 3906, 16079, 7250, 1576, -107>>, <<0, 6674, 4344, 629, 1537, -52>>>>,
       <<<<1, 14132, 1260, 7023, 1242, -106>>, <<0, 3603, 9523, 6297, 1545, -52>>>>,
       <<<<1, 16158, 10343, 10307, 1047, -107>>, <<0, 1965, 6287, 12708, 1553, -52>>>>,
       <<<<1, 5998, 8649, 1293, 1333, -106>>, <<0, 4845, 11538, 3481, 1562, -52>>>>,
       <<<<0, 2560, 11322, 5749, 1067, -106>>, <<0, 9881, 9769, 11389, 1570, -52>>>>,
       <<<<0, 10932, 1987, 13052, 1901, -107>>, <<0, 8411, 2218, 3668, 1579, -52>>>>,
       <<<<1, 10239, 13079, 9737, 1389, -109>>, <<0, 1164, 6869, 13089, 1587, -52>>>>,
       <<<<0, 8004, 10189, 10293, 1789, -108>>, <<0, 14134, 9301, 6889, 1596, -52>>>>,
       <<<<1, 15747, 7288, 4602, 1218, -106>>, <<0, 16326, 11847, 1456, 1605, -52>>>>,
       <<<<1, 7721, 11696, 7048, 1898, -110>>, <<0, 1509, 823, 13179, 1613, -52>>>>,
       <<<<1, 14681, 12866, 16279, 1800, -109>>, <<0, 4623, 12065, 9292, 1622, -52>>>>,
       <<<<1, 14762, 3027, 13362, 1168, -106>>, <<0, 3664, 16249, 6185, 1631, -52>>>>,
       <<<<1, 3659, 7578, 9933, 1394, -107>>, <<0, 1978, 808, 3863, 1640, -52>>>>,
       <<<<0, 3623, 11847, 16322, 1131, -108>>, <<0, 12432, 2703, 2328, 1649, -52>>>>,
       <<<<0, 13243, 1065, 9054, 1908, -109>>, <<0, 8995, 10124, 1585, 1658, -52>>>>,
       <<<<1, 8803, 2440, 4162, 1521, -107>>, <<0, 9573, 11639, 1639, 1667, -52>>>>,
       <<<<0, 12757, 3976, 2158, 1735, -107>>, <<0, 11571, 12584, 2494, 1676, -52>>>>,
       <<<<1, 15125, 3826, 15645, 1134, -106>>, <<0, 9565, 2296, 4155, 1685, -52>>>>,
       <<<<0, 12754, 13240, 793, 1075, -106>>, <<0, 13144, 3266, 6625, 1694, -52>>>>,
       <<<<0, 6835, 14797, 6214, 1306, -107>>, <<0, 15807, 5607, 9909, 1703, -52>>>>,
       <<<<1, 7604, 7738, 15577, 1207, -107>>, <<0, 13178, 16207, 14011, 1712, -52>>>>,
       <<<<0, 13191, 2860, 10105, 1798, -107>>, <<0, 5037, 9579, 2553, 1722, -52>>>>,
       <<<<1, 6650, 11079, 14580, 1054, -106>>, <<0, 13926, 9782, 8306, 1731, -52>>>>,
       <<<<1, 11962, 7026, 15765, 1392, -110>>, <<0, 5627, 8508, 14891, 1740, -52>>>>,
       <<<<1, 13888, 13979, 227, 1065, -106>>, <<0, 6458, 14229, 5928, 1750, -52>>>>,
       <<<<1, 4916, 8886, 12099, 1589, -109>>, <<0, 7751, 3053, 14191, 1759, -52>>>>,
       <<<<1, 2613, 11618, 11814, 1147, -106>>, <<0, 1610, 644, 6915, 1769, -52>>>>,
       <<<<0, 7629, 10623, 15728, 1343, -108>>, <<0, 466, 303, 489, 1779, -52>>>>,
       <<<<1, 6316, 10826, 8127, 1135, -106>>, <<0, 7689, 12124, 11301, 1788, -52>>>>,
       <<<<0, 3251, 700, 10979, 1243, -108>>, <<0, 4764, 13845, 6589, 1798, -52>>>>,
       <<<<0, 15764, 12927, 13093, 1976, -107>>, <<0, 4218, 16383, 2741, 1808, -52>>>>,
       <<<<0, 6572, 1061, 2301, 1336, -107>>, <<0, 4427, 14687, 16146, 1817, -52>>>>,
       <<<<0, 6759, 8504, 6899, 1267, -109>>, <<0, 10165, 4123, 14041, 1827, -52>>>>,
       <<<<0, 6504, 12872, 12998, 1498, -109>>, <<0, 4201, 13246, 12813, 1837, -52>>>>,
       <<<<1, 13778, 3890, 8584, 1058, -107>>, <<0, 1018, 5495, 12469, 1847, -52>>>>,
       <<<<1, 14959, 16383, 5587, 2027, -107>>, <<0, 2428, 10270, 13012, 1857, -52>>>>,
       <<<<1, 10569, 8662, 6883, 1027, -106>>, <<0, 2546, 8246, 14448, 1867, -52>>>>,
       <<<<0, 1959, 6388, 14426, 1320, -108>>, <<0, 9351, 13294, 397, 1878, -52>>>>,
       <<<<1, 8719, 256, 6626, 1188, -107>>, <<0, 920, 6950, 3633, 1888, -52>>>>,
       <<<<0, 4780, 5894, 9485, 1942, -107>>, <<0, 12933, 3948, 7776, 1898, -52>>>>,
       <<<<0, 11083, 12293, 9626, 1294, -107>>, <<0, 13408, 3078, 12831, 1908, -52>>>>,
       <<<<1, 15903, 7888, 4624, 1205, -107>>, <<0, 7007, 3566, 2419, 1919, -52>>>>,
       <<<<1, 3529, 11548, 11155, 1610, -107>>, <<0, 8489, 5078, 9313, 1929, -52>>>>,
       <<<<0, 2259, 234, 8262, 1325, -108>>, <<0, 16374, 7724, 750, 1940, -52>>>>,
       <<<<0, 12913, 1653, 7877, 1265, -107>>, <<0, 3203, 12061, 9503, 1950, -52>>>>,
       <<<<1, 4592, 16206, 12584, 2045, -107>>, <<0, 4314, 2706, 2810, 1961, -52>>>>,
       <<<<1, 13437, 2189, 10638, 1899, -107>>, <<0, 10225, 13881, 13442, 1971, -52>>>>,
       <<<<0, 8200, 1704, 15300, 1968, -107>>, <<0, 6695, 14725, 8638, 1982, -52>>>>,
       <<<<0, 11058, 3751, 14668, 1290, -107>>, <<0, 14999, 7598, 4787, 1993, -52>>>>,
       <<<<0, 1518, 1862, 2707, 1689, -107>>, <<0, 1344, 11705, 1893, 2004, -52>>>>,
       <<<<1, 9197, 4335, 15278, 1933, -107>>, <<0, 15892, 13938, 16346, 2014, -52>>>>,
       <<<<0, 3485, 13895, 5044, 1506, -108>>, <<0, 4312, 1658, 15384, 2025, -52>>>>,
       <<<<0, 3209, 1411, 7188, 1217, -110>>, <<0, 12785, 11837, 15394, 2036, -52>>>> >>

\* e_pow_log_data.c, N = 128: ln2 in two parts and the coefficients A of
\* log(1 + r) - r
pow_log_data ==
    [ Ln2hi |-> [k |-> "num", s |-> 0, m |-> <<14336, 15336, 9263, 1419>>, e |-> -53],   \* 0x1.62e42fefa3800p-1
      Ln2lo |-> [k |-> "num", s |-> 0, m |-> <<10032, 3869, 13689, 1980>>, e |-> -97],   \* 0x1.ef35793c76730p-45
      A0    |-> [k |-> "num", s |-> 1, m |-> <<0, 0, 0, 1024>>, e |-> -53],   \* -0x1.0000000000000p-1
      A1    |-> [k |-> "num", s |-> 1, m |-> <<5472, 5461, 5461, 1365>>, e |-> -53],   \* -0x1.5555555555560p-1
      A2    |-> [k |-> "num", s |-> 0, m |-> <<6, 0, 0, 1024>>, e |-> -53],   \* 0x1.0000000000006p-1
      A3    |-> [k |-> "num", s |-> 0, m |-> <<5454, 9573, 6553, 1638>>, e |-> -53],   \* 0x1.999999959554ep-1
      A4    |-> [k |-> "num", s |-> 1, m |-> <<9338, 5286, 5461, 1365>>, e |-> -53],   \* -0x1.555555529a47ap-1
      A5    |-> [k |-> "num", s |-> 1, m |-> <<1513, 11553, 5561, 1170>>, e |-> -52],   \* -0x1.2495b9b4845e9p+0
      A6    |-> [k |-> "num", s |-> 0, m |-> <<16323, 11416, 696, 1024>>, e |-> -52]]   \* 0x1.0002b8b263fc3p+0

\* e_pow_log_data.c, tab: for i = 0..127 invc, logc and logctail, with c near
\* the centre of the i-th interval of [0x1.69555p-1, 0x1.69555p0), invc the
\* double of 1/c and logc + logctail = log(c)
pow_log_tab ==
    << <<<<0, 0, 0, 0, 1448, -52>>, <<1, 2048, 2791, 2095, 1419, -54>>, <<0, 5760, 8413, 578, 1709, -100>>>>,
       <<<<0, 0, 0, 0, 1440, -52>>, <<1, 2048, 15712, 7131, 1396, -54>>, <<1, 14112, 9091, 4237, 1833, -98>>>>,
       <<<<0, 0, 0, 0, 1432, -52>>, <<1, 6144, 7445, 10097, 1373, -54>>, <<1, 4205, 5849, 10829, 1240, -97>>>>,
       <<<<0, 0, 0, 0, 1424, -52>>, <<1, 14336, 7351, 10968, 1350, -54>>, <<1, 10197, 15041, 3657, 1441, -101>>>>,
       <<<<0, 0, 0, 0, 1416, -52>>, <<1, 14336, 5597, 9721, 1327, -54>>, <<1, 16096, 3236, 13977, 1286, -99>>>>,
       <<<<0, 0, 0, 0, 1408, -52>>, <<1, 8192, 2161, 6332, 1304, -54>>, <<0, 1228, 8498, 756, 1270, -98>>>>,
       <<<<0, 0, 0, 0, 1400, -52>>, <<1, 10240, 6682, 776, 1281, -54>>, <<0, 2874, 13832, 12094, 1808, -102>>>>,
       <<<<0, 0, 0, 0, 1392, -52>>, <<1, 2048, 5541, 9413, 1257, -54>>, <<0, 5216, 6470, 7272, 1068, -97>>>>,
       <<<<0, 0, 0, 0, 1384, -52>>, <<1, 0, 10850, 15833, 1233, -54>>, <<0, 146, 4886, 5341, 1366, -97>>>>,
       <<<<0, 0, 0, 0, 1376, -52>>, <<1, 8192, 11140, 3627, 1210, -54>>, <<0, 11224, 9948, 12777, 1438, -97>>>>,
       <<<<0, 0, 0, 0, 1368, -52>>, <<1, 2048, 3962, 5537, 1186, -54>>, <<0, 12351, 6974, 8523, 1394, -98>>>>,
       <<<<0, 0, 0, 0, 1368, -52>>, <<1, 2048, 3962, 5537, 1186, -54>>, <<0, 12351, 6974, 8523, 1394, -98>>>>,
       <<<<0, 0, 0, 0, 1360, -52>>, <<1, 14336, 12093, 5151, 1162, -54>>, <<1, 6774, 8527, 8770, 1430, -98>>>>,
       <<<<0, 0, 0, 0, 1352, -52>>, <<1, 6144, 1446, 2444, 1138, -54>>, <<1, 5124, 9117, 15302, 2027, -98>>>>,
       <<<<0, 0, 0, 0, 1344, -52>>, <<1, 10240, 11950, 13770, 1113, -54>>, <<0, 10480, 3594, 15459, 1991, -98>>>>,
       <<<<0, 0, 0, 0, 1336, -52>>, <<1, 2048, 9913, 6335, 1089, -54>>, <<1, 6758, 13333, 3151, 1450, -97>>>>,
       <<<<0, 0, 0, 0, 1328, -52>>, <<1, 4096, 2510, 12878, 1064, -54>>, <<1, 782, 15312, 16103, 1818, -99>>>>,
       <<<<0, 0, 0, 0, 1320, -52>>, <<1, 4096, 4819, 601, 1040, -54>>, <<1, 11647, 15312, 11145, 1037, -100>>>>,
       <<<<0, 0, 0, 0, 1320, -52>>, <<1, 4096, 4819, 601, 1040, -54>>, <<1, 11647, 15312, 11145, 1037, -100>>>>,
       <<<<0, 0, 0, 0, 1312, -52>>, <<1, 0, 13689, 4486, 2030, -55>>, <<0, 15495, 11876, 12970, 1877, -99>>>>,
       <<<<0, 0, 0, 0, 1304, -52>>, <<1, 8192, 12145, 2780, 1980, -55>>, <<0, 12068, 12826, 11129, 1737, -97>>>>,
       <<<<0, 0, 0, 0, 1296, -52>>, <<1, 12288, 14507, 12406, 1929, -55>>, <<1, 16144, 4351, 13557, 1483, -98>>>>,
       <<<<0, 0, 0, 0, 1288, -52>>, <<1, 0, 11583, 534, 1879, -55>>, <<0, 10267, 12073, 10523, 1134, -97>>>>,
       <<<<0, 0, 0, 0, 1280, -52>>, <<1, 8192, 7786, 16252, 1827, -55>>, <<0, 1076, 8830, 5366, 1502, -97>>>>,
       <<<<0, 0, 0, 0, 1280, -52>>, <<1, 8192, 7786, 16252, 1827, -55>>, <<0, 1076, 8830, 5366, 1502, -97>>>>,
       <<<<0, 0, 0, 0, 1272, -52>>, <<1, 4096, 4278, 10343, 1776, -55>>, <<0, 14223, 1582, 11011, 1619, -98>>>>,
       <<<<0, 0, 0, 0, 1264, -52>>, <<1, 0, 14851, 15508, 1724, -55>>, <<0, 4198, 16182, 9779, 1683, -104>>>>,
       <<<<0, 0, 0, 0, 1256, -52>>, <<1, 12288, 16266, 15297, 1672, -55>>, <<1, 490, 12571, 1613, 1379, -97>>>>,
       <<<<0, 0, 0, 0, 1256, -52>>, <<1, 12288, 16266, 15297, 1672, -55>>, <<1, 490, 12571, 1613, 1379, -97>>>>,
       <<<<0, 0, 0, 0, 1248, -52>>, <<1, 4096, 13265, 9641, 1620, -55>>, <<1, 5347, 4871, 7568, 1716, -97>>>>,
       <<<<0, 0, 0, 0, 1240, -52>>, <<1, 4096, 5251, 14854, 1567, -55>>, <<0, 14857, 16239, 7159, 1775, -97>>>>,
       <<<<0, 0, 0, 0, 1232, -52>>, <<1, 8192, 2115, 14480, 1514, -55>>, <<0, 2648, 2381, 14599, 1782, -97>>>>,
       <<<<0, 0, 0, 0, 1232, -52>>, <<1, 8192, 2115, 14480, 1514, -55>>, <<0, 2648, 2381, 14599, 1782, -97>>>>,
       <<<<0, 0, 0, 0, 1224, -52>>, <<1, 4096, 7271, 8446, 1461, -55>>, <<1, 8806, 3787, 1706, 1081, -98>>>>,
       <<<<0, 0, 0, 0, 1216, -52>>, <<1, 4096, 670, 13063, 1407, -55>>, <<1, 4153, 15425, 9273, 1959, -98>>>>,
       <<<<0, 0, 0, 0, 1216, -52>>, <<1, 4096, 670, 13063, 1407, -55>>, <<1, 4153, 15425, 9273, 1959, -98>>>>,
       <<<<0, 0, 0, 0, 1208, -52>>, <<1, 12288, 3718, 11870, 1353, -55>>, <<1, 7055, 29, 10425, 1079, -97>>>>,
       <<<<0, 0, 0, 0, 1200, -52>>, <<1, 0, 13102, 4790, 1299, -55>>, <<0, 14396, 1237, 3094, 1475, -98>>>>,
       <<<<0, 0, 0, 0, 1200, -52>>, <<1, 0, 13102, 4790, 1299, -55>>, <<0, 14396, 1237, 3094, 1475, -98>>>>,
       <<<<0, 0, 0, 0, 1192, -52>>, <<1, 4096, 122, 8130, 1244, -55>>, <<0, 5178, 13469, 2148, 1118, -100>>>>,
       <<<<0, 0, 0, 0, 1184, -52>>, <<1, 12288, 8319, 5423, 1189, -55>>, <<1, 1032, 7623, 4865, 1315, -97>>>>,
       <<<<0, 0, 0, 0, 1176, -52>>, <<1, 8192, 5309, 12973, 1133, -55>>, <<1, 9110, 8262, 2625, 1952, -97>>>>,
       <<<<0, 0, 0, 0, 1176, -52>>, <<1, 8192, 5309, 12973, 1133, -55>>, <<1, 9110, 8262, 2625, 1952, -97>>>>,
       <<<<0, 0, 0, 0, 1168, -52>>, <<1, 4096, 13122, 14311, 1077, -55>>, <<0, 7156, 9121, 6504, 1690, -99>>>>,
       <<<<0, 0, 0, 0, 1168, -52>>, <<1, 4096, 13122, 14311, 1077, -55>>, <<0, 7156, 9121, 6504, 1690, -99>>>>,
       <<<<0, 0, 0, 0, 1160, -52>>, <<1, 8192, 1903, 2323, 2043, -56>>, <<1, 13298, 12940, 5445, 1373, -97>>>>,
       <<<<0, 0, 0, 0, 1152, -52>>, <<1, 0, 14508, 12406, 1929, -56>>, <<0, 60, 11200, 706, 1677, -97>>>>,
       <<<<0, 0, 0, 0, 1152, -52>>, <<1, 0, 14508, 12406, 1929, -56>>, <<0, 60, 11200, 706, 1677, -97>>>>,
       <<<<0, 0, 0, 0, 1144, -52>>, <<1, 0, 15727, 9544, 1815, -56>>, <<1, 15878, 8574, 1397, 1859, -98>>>>,
       <<<<0, 0, 0, 0, 1136, -52>>, <<1, 8192, 10539, 9939, 1700, -56>>, <<0, 10952, 8558, 4958, 1358, -97>>>>,
       <<<<0, 0, 0, 0, 1136, -52>>, <<1, 8192, 10539, 9939, 1700, -56>>, <<0, 10952, 8558, 4958, 1358, -97>>>>,
       <<<<0, 0, 0, 0, 1128, -52>>, <<1, 8192, 6342, 13405, 1584, -56>>, <<0, 5736, 13501, 660, 1247, -98>>>>,
       <<<<0, 0, 0, 0, 1128, -52>>, <<1, 8192, 6342, 13405, 1584, -56>>, <<0, 5736, 13501, 660, 1247, -98>>>>,
       <<<<0, 0, 0, 0, 1120, -52>>, <<1, 8192, 11157, 3368, 1468, -56>>, <<1, 13274, 9421, 13180, 1445, -97>>>>,
       <<<<0, 0, 0, 0, 1112, -52>>, <<1, 8192, 15384, 12403, 1350, -56>>, <<0, 7767, 1817, 9654, 1984, -98>>>>,
       <<<<0, 0, 0, 0, 1112, -52>>, <<1, 8192, 15384, 12403, 1350, -56>>, <<0, 7767, 1817, 9654, 1984, -98>>>>,
       <<<<0, 0, 0, 0, 1104, -52>>, <<1, 8192, 6255, 7545, 1232, -56>>, <<0, 5087, 13284, 11692, 1815, -97>>>>,
       <<<<0, 0, 0, 0, 1104, -52>>, <<1, 8192, 6255, 7545, 1232, -56>>, <<0, 5087, 13284, 11692, 1815, -97>>>>,
       <<<<0, 0, 0, 0, 1096, -52>>, <<1, 0, 14990, 4974, 1113, -56>>, <<0, 8969, 6718, 1511, 1311, -98>>>>,
       <<<<0, 0, 0, 0, 1088, -52>>, <<1, 0, 70, 8972, 1986, -57>>, <<0, 3729, 3290, 6632, 1878, -97>>>>,
       <<<<0, 0, 0, 0, 1088, -52>>, <<1, 0, 70, 8972, 1986, -57>>, <<0, 3729, 3290, 6632, 1878, -97>>>>,
       <<<<0, 0, 0, 0, 1080, -52>>, <<1, 0, 1126, 11735, 1744, -57>>, <<0, 12364, 5977, 10158, 1824, -98>>>>,
       <<<<0, 0, 0, 0, 1080, -52>>, <<1, 0, 1126, 11735, 1744, -57>>, <<0, 12364, 5977, 10158, 1824, -98>>>>,
       <<<<0, 0, 0, 0, 1072, -52>>, <<1, 0, 6347, 1423, 1501, -57>>, <<1, 8686, 5066, 1123, 1855, -97>>>>,
       <<<<0, 0, 0, 0, 1072, -52>>, <<1, 0, 6347, 1423, 1501, -57>>, <<1, 8686, 5066, 1123, 1855, -97>>>>,
       <<<<0, 0, 0, 0, 1064, -52>>, <<1, 0, 10235, 10363, 1255, -57>>, <<0, 16042, 5275, 11135, 1344, -100>>>>,
       <<<<0, 0, 0, 0, 1064, -52>>, <<1, 0, 10235, 10363, 1255, -57>>, <<0, 16042, 5275, 11135, 1344, -100>>>>,
       <<<<0, 0, 0, 0, 1056, -52>>, <<1, 0, 14816, 10672, 2016, -58>>, <<1, 2532, 12792, 615, 1632, -97>>>>,
       <<<<0, 0, 0, 0, 1056, -52>>, <<1, 0, 14816, 10672, 2016, -58>>, <<1, 2532, 12792, 615, 1632, -97>>>>,
       <<<<0, 0, 0, 0, 1048, -52>>, <<1, 0, 8022, 4528, 1518, -58>>, <<1, 9785, 4074, 5449, 1571, -97>>>>,
       <<<<0, 0, 0, 0, 1040, -52>>, <<1, 0, 1008, 2699, 2032, -59>>, <<1, 9884, 6990, 10191, 1991, -102>>>>,
       <<<<0, 0, 0, 0, 1040, -52>>, <<1, 0, 1008, 2699, 2032, -59>>, <<1, 9884, 6990, 10191, 1991, -102>>>>,
       <<<<0, 0, 0, 0, 1032, -52>>, <<1, 0, 11328, 678, 2040, -60>>, <<1, 228, 14185, 9200, 1656, -98>>>>,
       <<<<0, 0, 0, 0, 1032, -52>>, <<1, 0, 11328, 678, 2040, -60>>, <<1, 228, 14185, 9200, 1656, -98>>>>,
       <<<<0, 0, 0, 0, 1024, -52>>, <<0, 0, 0, 0, 0, 0>>, <<0, 0, 0, 0, 0, 0>>>>,
       <<<<0, 0, 0, 0, 1024, -52>>, <<0, 0, 0, 0, 0, 0>>, <<0, 0, 0, 0, 0, 0>>>>,
       <<<<0, 0, 0, 0, 2032, -53>>, <<0, 0, 5668, 343, 1028, -59>>, <<1, 11240, 9844, 14009, 1073, -98>>>>,
       <<<<0, 0, 0, 0, 2016, -53>>, <<0, 0, 8782, 1381, 1032, -58>>, <<1, 14290, 7051, 1456, 1271, -97>>>>,
       <<<<0, 0, 0, 0, 2000, -53>>, <<0, 0, 8996, 4690, 1554, -58>>, <<1, 3124, 2408, 2979, 1704, -97>>>>,
       <<<<0, 0, 0, 0, 1984, -53>>, <<0, 0, 10141, 5592, 1040, -57>>, <<0, 5971, 13255, 7173, 1092, -99>>>>,
       <<<<0, 0, 0, 0, 1968, -53>>, <<0, 0, 4280, 10989, 1305, -57>>, <<1, 15656, 5879, 10039, 1797, -97>>>>,
       <<<<0, 0, 0, 0, 1952, -53>>, <<0, 0, 4735, 2721, 1573, -57>>, <<1, 9853, 360, 6493, 1630, -98>>>>,
       <<<<0, 0, 0, 0, 1936, -53>>, <<0, 0, 14199, 14140, 1842, -57>>, <<1, 10247, 8032, 3876, 1690, -98>>>>,
       <<<<0, 0, 0, 0, 1928, -53>>, <<0, 0, 27, 8988, 1978, -57>>, <<1, 15227, 16164, 5092, 1924, -99>>>>,
       <<<<0, 0, 0, 0, 1912, -53>>, <<0, 8192, 1305, 13245, 1125, -56>>, <<1, 7835, 6198, 9685, 1356, -97>>>>,
       <<<<0, 0, 0, 0, 1896, -53>>, <<0, 8192, 8007, 8026, 1263, -56>>, <<0, 3799, 5997, 1514, 1842, -97>>>>,
       <<<<0, 0, 0, 0, 1880, -53>>, <<0, 8192, 13918, 5540, 1402, -56>>, <<1, 7454, 12660, 4195, 1818, -97>>>>,
       <<<<0, 0, 0, 0, 1872, -53>>, <<0, 0, 11179, 3376, 1472, -56>>, <<0, 11570, 9847, 10458, 1799, -101>>>>,
       <<<<0, 0, 0, 0, 1856, -53>>, <<0, 0, 13669, 13797, 1612, -56>>, <<0, 2010, 10997, 5571, 1220, -97>>>>,
       <<<<0, 0, 0, 0, 1840, -53>>, <<0, 8192, 14005, 11400, 1754, -56>>, <<1, 10469, 12253, 2050, 1252, -98>>>>,
       <<<<0, 0, 0, 0, 1832, -53>>, <<0, 0, 1777, 1408, 1826, -56>>, <<0, 11475, 6506, 11548, 1425, -97>>>>,
       <<<<0, 0, 0, 0, 1816, -53>>, <<0, 8192, 3112, 13208, 1969, -56>>, <<1, 1504, 16281, 1674, 1904, -97>>>>,
       <<<<0, 0, 0, 0, 1808, -53>>, <<0, 8192, 10095, 2323, 2042, -56>>, <<1, 2813, 16004, 3428, 1357, -97>>>>,
       <<<<0, 0, 0, 0, 1792, -53>>, <<0, 8192, 2207, 14568, 1093, -55>>, <<0, 2034, 14516, 14220, 1147, -97>>>>,
       <<<<0, 0, 0, 0, 1784, -53>>, <<0, 12288, 14479, 8887, 1130, -55>>, <<0, 6452, 4322, 14564, 1833, -97>>>>,
       <<<<0, 0, 0, 0, 1768, -53>>, <<0, 0, 12826, 5648, 1204, -55>>, <<0, 13473, 11782, 5836, 1255, -99>>>>,
       <<<<0, 0, 0, 0, 1760, -53>>, <<0, 4096, 86, 8139, 1241, -55>>, <<0, 12937, 3373, 14978, 1419, -103>>>>,
       <<<<0, 0, 0, 0, 1744, -53>>, <<0, 12288, 3278, 5080, 1316, -55>>, <<0, 13944, 5110, 14229, 1376, -97>>>>,
       <<<<0, 0, 0, 0, 1736, -53>>, <<0, 12288, 4742, 15966, 1353, -55>>, <<0, 15815, 5541, 16014, 1420, -97>>>>,
       <<<<0, 0, 0, 0, 1720, -53>>, <<0, 4096, 14896, 13547, 1429, -55>>, <<0, 11896, 12528, 14514, 1651, -98>>>>,
       <<<<0, 0, 0, 0, 1712, -53>>, <<0, 12288, 11733, 296, 1468, -55>>, <<1, 8673, 5744, 6366, 1348, -97>>>>,
       <<<<0, 0, 0, 0, 1704, -53>>, <<0, 4096, 5393, 6360, 1506, -55>>, <<1, 773, 581, 8455, 1817, -98>>>>,
       <<<<0, 0, 0, 0, 1688, -53>>, <<0, 0, 11492, 11006, 1583, -55>>, <<1, 11473, 11172, 5450, 1487, -99>>>>,
       <<<<0, 0, 0, 0, 1680, -53>>, <<0, 0, 13276, 9645, 1622, -55>>, <<0, 16239, 8835, 8837, 1532, -99>>>>,
       <<<<0, 0, 0, 0, 1664, -53>>, <<0, 8192, 12843, 16083, 1700, -55>>, <<1, 8553, 344, 9269, 1564, -97>>>>,
       <<<<0, 0, 0, 0, 1656, -53>>, <<0, 4096, 7535, 7557, 1740, -55>>, <<1, 8618, 15027, 6356, 1805, -99>>>>,
       <<<<0, 0, 0, 0, 1648, -53>>, <<0, 8192, 8431, 2163, 1780, -55>>, <<1, 4790, 9552, 15429, 1874, -97>>>>,
       <<<<0, 0, 0, 0, 1640, -53>>, <<0, 4096, 7104, 16316, 1819, -55>>, <<1, 11218, 5720, 1836, 1147, -100>>>>,
       <<<<0, 0, 0, 0, 1624, -53>>, <<0, 4096, 850, 5083, 1900, -55>>, <<1, 12341, 7254, 12975, 1727, -97>>>>,
       <<<<0, 0, 0, 0, 1616, -53>>, <<0, 4096, 16284, 12527, 1940, -55>>, <<0, 13360, 263, 8822, 1156, -103>>>>,
       <<<<0, 0, 0, 0, 1608, -53>>, <<0, 0, 4980, 6878, 1981, -55>>, <<1, 3601, 5870, 4438, 1672, -103>>>>,
       <<<<0, 0, 0, 0, 1600, -53>>, <<0, 12288, 13006, 4550, 2022, -55>>, <<0, 7984, 10291, 16076, 1778, -98>>>>,
       <<<<0, 0, 0, 0, 1584, -53>>, <<0, 6144, 309, 4998, 1052, -54>>, <<0, 3729, 7093, 3505, 1575, -100>>>>,
       <<<<0, 0, 0, 0, 1576, -53>>, <<0, 8192, 7557, 726, 1073, -54>>, <<0, 10985, 6387, 2225, 1478, -97>>>>,
       <<<<0, 0, 0, 0, 1568, -53>>, <<0, 10240, 2207, 14568, 1093, -54>>, <<1, 12316, 3735, 4326, 1800, -97>>>>,
       <<<<0, 0, 0, 0, 1560, -53>>, <<0, 14336, 11955, 13772, 1114, -54>>, <<0, 5761, 7828, 11487, 1766, -97>>>>,
       <<<<0, 0, 0, 0, 1552, -53>>, <<0, 10240, 3433, 14742, 1135, -54>>, <<0, 15799, 1310, 11989, 1833, -97>>>>,
       <<<<0, 0, 0, 0, 1544, -53>>, <<0, 14336, 13370, 1110, 1157, -54>>, <<0, 15082, 10522, 15851, 1697, -99>>>>,
       <<<<0, 0, 0, 0, 1528, -53>>, <<0, 4096, 13170, 12039, 1199, -54>>, <<0, 1268, 10560, 4004, 1703, -97>>>>,
       <<<<0, 0, 0, 0, 1520, -53>>, <<0, 8192, 1869, 3870, 1221, -54>>, <<1, 15544, 3204, 10157, 1592, -97>>>>,
       <<<<0, 0, 0, 0, 1512, -53>>, <<0, 4096, 6904, 13943, 1242, -54>>, <<0, 14280, 965, 11483, 1115, -98>>>>,
       <<<<0, 0, 0, 0, 1504, -53>>, <<0, 12288, 7372, 9511, 1264, -54>>, <<0, 15708, 6170, 13643, 1550, -98>>>>,
       <<<<0, 0, 0, 0, 1496, -53>>, <<0, 10240, 3927, 6978, 1286, -54>>, <<0, 8349, 12867, 878, 1593, -99>>>>,
       <<<<0, 0, 0, 0, 1488, -53>>, <<0, 2048, 2503, 6364, 1308, -54>>, <<1, 5749, 9631, 15584, 1993, -97>>>>,
       <<<<0, 0, 0, 0, 1480, -53>>, <<0, 12288, 14428, 7689, 1330, -54>>, <<1, 6308, 11307, 2193, 1928, -97>>>>,
       <<<<0, 0, 0, 0, 1472, -53>>, <<0, 8192, 7394, 10976, 1352, -54>>, <<0, 1881, 1427, 9992, 1967, -97>>>>,
       <<<<0, 0, 0, 0, 1464, -53>>, <<0, 4096, 3875, 16245, 1374, -54>>, <<0, 239, 14709, 7902, 2027, -98>>>>,
       <<<<0, 0, 0, 0, 1456, -53>>, <<0, 8192, 15717, 7133, 1397, -54>>, <<1, 9692, 8849, 12960, 1666, -99>>>> >>

\* s_sin.c, SINCOS_TABLE_LOOKUP: sn, ssn, cs, ccs of the i / 128 nearest to
\* |x|, i the low word of u = big + |x|
SINCOS_TABLE_LOOKUP(u) ==
    Then([j \in 1..4 |-> Entry(sincostab[4 * NToInt(NLow(u.m, 30)) + j])], LAMBDA t :
         [u |-> u, sn |-> t[1], ssn |-> t[2], cs |-> t[3], ccs |-> t[4]])

\* s_sin.c, TAYLOR_SIN with POLYNOMIAL: sin(x + dx) for |x| < 0.126
TAYLOR_SIN ==
    << <<"xx", "mul", "x", "x">>,
       <<"p", "fmadd", "s5", "xx", "s4">>,
       <<"p", "fmadd", "p", "xx", "s3">>,
       <<"p", "fmadd", "p", "xx", "s2">>,
       <<"p", "fmadd", "p", "xx", "s1">>,
       <<"h", "mul", "cs2", "dx">>,
       <<"t", "fmsub", "p", "x", "h">>,
       <<"t", "fmadd", "t", "xx", "dx">>,
       <<"res", "add", "x", "t">> >>

\* s_sin.c, do_sin past TAYLOR_SIN, with x for |x| and dx of the sign of x:
\* sin(x + dx) = sin(u) cos(y) + cos(u) sin(y) for y = x + dx - u
DO_SIN ==
    << <<"t", "sub", "u", "big">>,
       <<"y", "sub", "x", "t">>,
       <<"xx", "mul", "y", "y">>,
       <<"p", "fmadd", "sn5", "xx", "sn3">>,
       <<"q", "mul", "y", "xx">>,
       <<"s", "fmadd", "q", "p", "dx">>,
       <<"s", "add", "y", "s">>,
       <<"c", "fmadd", "cs6", "xx", "cs4">>,
       <<"c", "fmadd", "c", "xx", "cs2">>,
       <<"c", "mul", "xx", "c">>,
       <<"c", "fmadd", "y", "dx", "c">>,
       <<"cor", "fmadd", "ccs", "s", "ssn">>,
       <<"cor", "fnmadd", "c", "sn", "cor">>,
       <<"cor", "fmadd", "s", "cs", "cor">>,
       <<"res", "add", "sn", "cor">> >>

\* s_sin.c, do_cos, with x for |x| and dx of the sign of x:
\* cos(x + dx) = cos(u) cos(y) - sin(u) sin(y) for y = x + dx - u
DO_COS ==
    << <<"t", "sub", "u", "big">>,
       <<"y", "sub", "x", "t">>,
       <<"y", "add", "y", "dx">>,
       <<"xx", "mul", "y", "y">>,
       <<"p", "fmadd", "sn5", "xx", "sn3">>,
       <<"q", "mul", "y", "xx">>,
       <<"s", "fmadd", "q", "p", "y">>,
       <<"c", "fmadd", "cs6", "xx", "cs4">>,
       <<"c", "fmadd", "c", "xx", "cs2">>,
       <<"c", "mul", "xx", "c">>,
       <<"cor", "fnmadd", "s", "ssn", "ccs">>,
       <<"cor", "fnmadd", "c", "cs", "cor">>,
       <<"cor", "fnmadd", "s", "sn", "cor">>,
       <<"res", "add", "cs", "cor">> >>

\* s_sin.c, do_sin (n even) and do_cos (n odd) of a + da, for |a| < 0.86 and
\* da small; tay: |a| < 0.126; u = big + |a|.  do_sin takes TAYLOR_SIN of a
\* and da, or DO_SIN of |a| and gives the result the sign of a
SinCosTable(a, da, odd, tay, u) ==
    Exec(IF odd THEN DO_COS ELSE IF tay THEN TAYLOR_SIN ELSE DO_SIN,
         IF ~odd /\ tay THEN [x |-> a, dx |-> da] @@ usncs
         ELSE [x |-> FAbs(a),
               dx |-> IF FLt(a, Zero) \/ (~odd /\ FLe(a, Zero)) THEN FNeg(da) ELSE da]
              @@ SINCOS_TABLE_LOOKUP(u) @@ usncs,
         1).res

\* s_sin.c, do_sincos: sin(a + da + n * pi/2); it is do_sin(a, da) for n = 0
\* and do_cos(a, da) for n = 1
do_sincos(a, da, n) ==
    Then(SinCosTable(a, da, n % 2 = 1, FLt(FAbs(a), usncs.taylor),
                     FAdd(usncs.big, FAbs(a))),
         LAMBDA r :
    Then(IF n % 2 = 1 \/ FLt(FAbs(a), usncs.taylor) THEN r ELSE CopySign(r, a),
         LAMBDA t : IF (n \div 2) % 2 = 1 THEN FNeg(t) ELSE t))

\* s_sin.c, __sin and __cos for 0.855 <= |x| < 2.426, ax = |x|: pi/2 - |x| as
\* y (__sin) and as a + da (__cos)
REDUCE_HP ==
    << <<"y", "sub", "hp0", "ax">>,
       <<"a", "add", "y", "hp1">>,
       <<"t", "sub", "y", "a">>,
       <<"da", "add", "t", "hp1">> >>

\* s_sin.c, reduce_sincos, for 2.426 <= |x| < 105414350: x = xn * pi/2 + b + db,
\* xn the integer nearest to x * 2/pi, the last bits of t
REDUCE_SINCOS ==
    << <<"t", "fmadd", "x", "hpinv", "toint">>,
       <<"xn", "sub", "t", "toint">>,
       <<"y", "fnmadd", "xn", "mp1", "x">>,
       <<"y", "fnmadd", "xn", "mp2", "y">>,
       <<"t2", "fnmadd", "xn", "pp3", "y">>,
       <<"d", "sub", "y", "t2">>,
       <<"db", "fnmadd", "xn", "pp3", "d">>,
       <<"b", "fnmadd", "xn", "pp4", "t2">>,
       <<"d", "sub", "t2", "b">>,
       <<"d", "fnmadd", "xn", "pp4", "d">>,
       <<"db", "add", "db", "d">> >>

\* branred.c, __branred: x * 2^-600 split into x1 + x2
BRANRED_SPLIT ==
    << <<"xs", "mul", "x", "tm600">>,
       <<"t", "mul", "xs", "split">>,
       <<"d", "sub", "t", "xs">>,
       <<"x1", "sub", "t", "d">>,
       <<"x2", "sub", "xs", "x1">> >>

\* branred.c, __branred: the product of x (x1 or x2) with the six digits
\* tv1..tv6 of 2/pi, scaled by g1..g6, summed to the fraction b + bb and the
\* integer part sm modulo 4; the loops of the code are unrolled
BRANRED_PART ==
    << <<"r1", "mul", "x", "tv1">>, <<"r1", "mul", "r1", "g1">>,
       <<"r2", "mul", "x", "tv2">>, <<"r2", "mul", "r2", "g2">>,
       <<"r3", "mul", "x", "tv3">>, <<"r3", "mul", "r3", "g3">>,
       <<"r4", "mul", "x", "tv4">>, <<"r4", "mul", "r4", "g4">>,
       <<"r5", "mul", "x", "tv5">>, <<"r5", "mul", "r5", "g5">>,
       <<"r6", "mul", "x", "tv6">>, <<"r6", "mul", "r6", "g6">>,
       <<"s", "add", "r1", "big">>, <<"s", "sub", "s", "big">>,
       <<"sm", "add", "zero", "s">>, <<"r1", "sub", "r1", "s">>,
       <<"s", "add", "r2", "big">>, <<"s", "sub", "s", "big">>,
       <<"sm", "add", "sm", "s">>, <<"r2", "sub", "r2", "s">>,
       <<"s", "add", "r3", "big">>, <<"s", "sub", "s", "big">>,
       <<"sm", "add", "sm", "s">>, <<"r3", "sub", "r3", "s">>,
       <<"t", "add", "zero", "r6">>, <<"t", "add", "t", "r5">>,
       <<"t", "add", "t", "r4">>, <<"t", "add", "t", "r3">>,
       <<"t", "add", "t", "r2">>, <<"t", "add", "t", "r1">>,
       <<"bb", "sub", "r1", "t">>, <<"bb", "add", "bb", "r2">>,
       <<"bb", "add", "bb", "r3">>, <<"bb", "add", "bb", "r4">>,
       <<"bb", "add", "bb", "r5">>, <<"bb", "add", "bb", "r6">>,
       <<"s", "add", "t", "big">>, <<"s", "sub", "s", "big">>,
       <<"sm", "add", "sm", "s">>,
       <<"t", "sub", "t", "s">>,
       <<"b", "add", "t", "bb">>,
       <<"d", "sub", "t", "b">>,
       <<"bb", "add", "d", "bb">>,
       <<"s", "add", "sm", "big1">>, <<"s", "sub", "s", "big1">>,
       <<"sm", "sub", "sm", "s">> >>

\* branred.c, __branred: BRANRED_PART for x, from the digit k of 2/pi on that
\* the exponent field of x gives
BranredPart(x, k) ==
    Then([i \in 1..6 |-> Entry(toverp[k + i])], LAMBDA tv :
         Exec(BRANRED_PART,
              [x |-> x, zero |-> Zero,
               tv1 |-> tv[1], tv2 |-> tv[2], tv3 |-> tv[3],
               tv4 |-> tv[4], tv5 |-> tv[5], tv6 |-> tv[6],
               g1 |-> Pow2(576 - 24 * k), g2 |-> Pow2(552 - 24 * k),
               g3 |-> Pow2(528 - 24 * k), g4 |-> Pow2(504 - 24 * k),
               g5 |-> Pow2(480 - 24 * k), g6 |-> Pow2(456 - 24 * k)] @@ branred_c,
              1))

\* branred.c, __branred: the end, (b + bb + bb1 + bb2) * pi/2 as s + t
BRANRED_END ==
    << <<"s", "add", "bb", "bb1">>,
       <<"s", "add", "s", "bb2">>,
       <<"s", "add", "b", "s">>,
       <<"t", "sub", "b", "s">>,
       <<"t", "add", "t", "bb">>,
       <<"d", "add", "bb1", "bb2">>,
       <<"t", "add", "t", "d">>,
       <<"b", "mul", "s", "split">>,
       <<"d", "sub", "b", "s">>,
       <<"t1", "sub", "b", "d">>,
       <<"t2", "sub", "s", "t1">>,
       <<"b", "mul", "s", "hp0">>,
       <<"bb", "mul", "t1", "mp1">>,
       <<"bb", "sub", "bb", "b">>,
       <<"w", "mul", "t1", "mp2">>,
       <<"bb", "add", "bb", "w">>,
       <<"w", "mul", "t2", "mp1">>,
       <<"bb", "add", "bb", "w">>,
       <<"w", "mul", "t2", "mp2">>,
       <<"z", "mul", "s", "hp1">>,
       <<"w", "add", "w", "z">>,
       <<"z", "mul", "t", "hp0">>,
       <<"w", "add", "w", "z">>,
       <<"bb", "add", "bb", "w">>,
       <<"s", "add", "b", "bb">>,
       <<"t", "sub", "b", "s">>,
       <<"t", "add", "t", "bb">> >>

\* branred.c, __branred, from the parts p1 of x1 and p2 of x2 and
\* b = b1 + b2: <<n, a, da>>
BranredEnd(p1, p2, b) ==
    Then(Exec(<< <<"sm", "add", "sum1", "sum2">> >>
              \o (IF FLt(FAbs(p2.b), FAbs(p1.b))
                  THEN << <<"bb", "sub", "b1", "b">>, <<"bb", "add", "bb", "b2">> >>
                  ELSE << <<"bb", "sub", "b2", "b">>, <<"bb", "add", "bb", "b1">> >>)
              \o (IF FLt(branred_c.half, b)
                  THEN << <<"b", "sub", "b", "one">>, <<"sm", "add", "sm", "one">> >>
                  ELSE IF FLt(b, FNeg(branred_c.half))
                  THEN << <<"b", "add", "b", "one">>, <<"sm", "sub", "sm", "one">> >>
                  ELSE << >>)
              \o BRANRED_END,
              [b |-> b, b1 |-> p1.b, bb1 |-> p1.bb, sum1 |-> p1.sm,
               b2 |-> p2.b, bb2 |-> p2.bb, sum2 |-> p2.sm, one |-> Pow2(0)]
              @@ branred_c,
              1),
         LAMBDA v : <<FInt(v.sm) % 4, v.s, v.t>>)

\* the digit of 2/pi for x1 and for x2
BranredDigit(x) ==
    IF IsZero(x) THEN 0 ELSE Max(0, (Exponent(x) + 1023 - 450) \div 24)

\* branred.c, __branred: <<n, a, da>> with x = n * pi/2 + a + da modulo 2 pi,
\* for 105414350 <= |x|
branred(x) ==
    Then(Exec(BRANRED_SPLIT, [x |-> x] @@ branred_c, 1), LAMBDA v :
    Then([i \in 1..2 |-> BranredPart(IF i = 1 THEN v.x1 ELSE v.x2,
                                     BranredDigit(IF i = 1 THEN v.x1 ELSE v.x2))],
         LAMBDA p : BranredEnd(p[1], p[2], FAdd(p[1].b, p[2].b))))

\* s_sin.c, __sin and __cos: the variables after the reduction of x,
\* 0.855 <= |x| < 105414350
Reduced(x) ==
    Exec(IF FLt(FAbs(x), usncs.k400368fd) THEN REDUCE_HP ELSE REDUCE_SINCOS,
         [x |-> x, ax |-> FAbs(x)] @@ usncs, 1)

\* s_sin.c, __sin and __cos for 2.426 <= |x|: <<n + c, a, da>> of
\* reduce_sincos or of __branred
SinCosLarge(x, c) ==
    IF FLt(FAbs(x), usncs.k419921fb)
    THEN Then(Reduced(x), LAMBDA v : <<NToInt(NLow(v.t.m, 2)) + c, v.b, v.db>>)
    ELSE Then(branred(x), LAMBDA r : <<r[1] + c, r[2], r[3]>>)

\* s_sin.c, __sin: do_sin(x, 0) for |x| < 0.855, do_cos(pi/2 - |x|) with the
\* sign of x for |x| < 2.426, do_sincos(a, da, n) from there on
libm_sin(x) ==
    IF x.k # "num" THEN NaN
    ELSE IF FLt(FAbs(x), usncs.k3e500000) THEN x
    ELSE Then(IF FLt(FAbs(x), usncs.k3feb6000) THEN <<0, x, Zero>>
              ELSE IF FLt(FAbs(x), usncs.k400368fd) THEN <<1, Reduced(x).y, usncs.hp1>>
              ELSE SinCosLarge(x, 0),
              LAMBDA r :
         Then(do_sincos(r[2], r[3], r[1]), LAMBDA y :
              IF FLe(usncs.k3feb6000, FAbs(x)) /\ FLt(FAbs(x), usncs.k400368fd)
              THEN CopySign(y, x) ELSE y))

\* s_sin.c, __cos: do_cos(x, 0) for |x| < 0.855, do_sin(pi/2 - |x|) for
\* |x| < 2.426, do_sincos(a, da, n + 1) from there on
libm_cos(x) ==
    IF x.k # "num" THEN NaN
    ELSE IF FLt(FAbs(x), usncs.k3e400000) THEN Pow2(0)
    ELSE Then(IF FLt(FAbs(x), usncs.k3feb6000) THEN <<1, x, Zero>>
              ELSE IF FLt(FAbs(x), usncs.k400368fd)
              THEN Then(Reduced(x), LAMBDA v : <<0, v.a, v.da>>)
              ELSE SinCosLarge(x, 1),
              LAMBDA r : do_sincos(r[2], r[3], r[1]))

fabs(x) == [k |-> x.k, s |-> 0, m |-> x.m, e |-> x.e]

\* e_exp.c, __exp, and e_pow.c, exp_inline: x = kd * ln2/128 + r, kd the
\* integer nearest to x * 128/ln2
EXP_REDUCE ==
    << <<"z", "fmadd", "x", "InvLn2N", "Shift">>,
       <<"kd", "sub", "z", "Shift">>,
       <<"r", "fmadd", "kd", "NegLn2hiN", "x">>,
       <<"r", "fmadd", "kd", "NegLn2loN", "r">> >>

\* e_exp.c, __exp, and e_pow.c, exp_inline: tmp = exp(r) - 1 + tail
EXP_POLY ==
    << <<"a", "add", "tail", "r">>,
       <<"r2", "mul", "r", "r">>,
       <<"b", "fmadd", "r", "C3", "C2">>,
       <<"b", "fmadd", "b", "r2", "a">>,
       <<"c", "fmadd", "r", "C5", "C4">>,
       <<"r4", "mul", "r2", "r2">>,
       <<"tmp", "fmadd", "r4", "c", "b">> >>

\* e_exp.c and e_pow.c, specialcase where the result is below 2^-1022 * 1:
\* y = scale + scale * tmp with the bits rounding to a subnormal drops
EXP_SUBNORMAL ==
    << <<"lo", "sub", "scale", "y">>,
       <<"lo", "add", "lo", "st">>,
       <<"hi", "add", "one", "y">>,
       <<"d", "sub", "one", "hi">>,
       <<"d", "add", "d", "y">>,
       <<"lo", "add", "d", "lo">>,
       <<"y", "add", "hi", "lo">>,
       <<"y", "sub", "y", "one">>,
       <<"res", "mul", "p1022", "y">> >>

\* e_exp.c and e_pow.c, specialcase for ki < 0, scale = sc * 2^1022, from the
\* variables v with y = scale + scale * tmp
ExpSmall(v, sg) ==
    IF FLt(FAbs(v.y), Pow2(0))
    THEN Then(Exec(EXP_SUBNORMAL,
                   [one |-> IF FLt(v.y, Zero) THEN FNeg(Pow2(0)) ELSE Pow2(0)] @@ v, 1),
              LAMBDA w : IF IsZero(w.y) THEN (IF sg = 1 THEN NegZero ELSE Zero)
                         ELSE w.res)
    ELSE Exec(<< <<"res", "mul", "p1022", "y">> >>, v, 1).res

\* e_exp.c, __exp, and e_pow.c, exp_inline, from r and kd = ki, with the
\* entry tab = <<tail, sc>> of the table for ki % 128 and q = ki / 128:
\* (-1)^sg * sc * 2^q * (1 + tmp); by specialcase where 512 <= |x| (special)
ExpScale(v, tab, q, ki, sg, special) ==
    Exec(EXP_POLY
         \o (IF ~special THEN << <<"res", "fmadd", "scale", "tmp", "scale">> >>
             ELSE IF ki >= 0
             THEN << <<"y", "fmadd", "scale", "tmp", "scale">>,
                     <<"res", "mul", "p1009", "y">> >>
             ELSE << <<"st", "mul", "scale", "tmp">>,
                     <<"y", "add", "scale", "st">> >>),
         [tail |-> Entry(tab[1]),
          scale |-> [k |-> "num", s |-> sg, m |-> Entry(tab[2]).m,
                     e |-> Entry(tab[2]).e + q
                           + (IF ~special THEN 0 ELSE IF ki >= 0 THEN -1009 ELSE 1022)],
          p1009 |-> Pow2(1009), p1022 |-> Pow2(-1022)] @@ v,
         1)

\* e_exp.c, __exp (pw = FALSE: no xtail), and e_pow.c, exp_inline:
\* (-1)^sg * exp(x + xtail)
ExpOf(x, xtail, sg, pw) ==
    IF IsZero(x) \/ (x.k = "num" /\ Exponent(x) < -54)
    THEN Then(FAdd(Pow2(0), x), LAMBDA one : IF sg = 1 THEN FNeg(one) ELSE one)
    ELSE IF IsInf(x) \/ Exponent(x) >= 10
    THEN (IF x.s = 1 THEN (IF sg = 1 THEN NegZero ELSE Zero) ELSE Inf(sg))
    ELSE Then(Exec(EXP_REDUCE \o (IF pw THEN << <<"r", "add", "r", "xtail">> >> ELSE << >>),
                   [x |-> x, xtail |-> xtail] @@ exp_data, 1),
              LAMBDA v :
         Then(ExpScale(v, exp_tab[(FInt(v.kd) % 128) + 1],
                       (FInt(v.kd) - (FInt(v.kd) % 128)) \div 128, FInt(v.kd), sg,
                       Exponent(x) = 9),
              LAMBDA w :
              IF Exponent(x) = 9 /\ FInt(v.kd) < 0 THEN ExpSmall(w, sg) ELSE w.res))

\* e_exp.c, __exp
libm_exp(x) == IF IsNaN(x) THEN NaN ELSE ExpOf(x, Zero, 0, FALSE)

\* e_pow.c, exp_inline
exp_inline(x, xtail, sign_bias) == ExpOf(x, xtail, sign_bias, TRUE)

\* e_pow.c, log_inline: log(x) as l + lt from z = x / 2^kd in
\* [0x1.69555p-1, 0x1.69555p0) and invc, logc, logctail of its interval; then
\* __pow: y * log(x) as ehi + elo
POW_LOG ==
    << <<"r", "fmsub", "z", "invc", "one">>,
       <<"t1", "fmadd", "kd", "Ln2hi", "logc">>,
       <<"t2", "add", "t1", "r">>,
       <<"lo1", "fmadd", "kd", "Ln2lo", "logctail">>,
       <<"lo2", "sub", "t1", "t2">>,
       <<"lo2", "add", "lo2", "r">>,
       <<"ar", "mul", "A0", "r">>,
       <<"ar2", "mul", "r", "ar">>,
       <<"ar3", "mul", "r", "ar2">>,
       <<"hi", "add", "t2", "ar2">>,
       <<"lo3", "fmsub", "ar", "r", "ar2">>,
       <<"lo4", "sub", "t2", "hi">>,
       <<"lo4", "add", "lo4", "ar2">>,
       <<"p", "fmadd", "r", "A6", "A5">>,
       <<"q", "fmadd", "A4", "r", "A3">>,
       <<"p", "fmadd", "p", "ar2", "q">>,
       <<"q", "fmadd", "A2", "r", "A1">>,
       <<"p", "fmadd", "ar2", "p", "q">>,
       <<"lo", "add", "lo1", "lo2">>,
       <<"lo", "add", "lo", "lo3">>,
       <<"lo", "add", "lo", "lo4">>,
       <<"lo", "fmadd", "ar3", "p", "lo">>,
       <<"l", "add", "hi", "lo">>,
       <<"d", "sub", "hi", "l">>,
       <<"lt", "add", "d", "lo">>,
       <<"ehi", "mul", "y", "l">>,
       <<"d", "fmsub", "y", "l", "ehi">>,
       <<"elo", "fmadd", "y", "lt", "d">> >>

\* e_pow.c, log_inline of x > 0, x with m of 53 bits, and y * log(x): d is the
\* high word of x less that of OFF = 0x3fe6955500000000 (the low word of OFF
\* is 0), d / 2^20 the exponent kd and d / 2^13 % 128 the interval
log_inline(x, y, d) ==
    Then(pow_log_tab[((d \div 2^13) % 128) + 1], LAMBDA t :
         Exec(POW_LOG,
              [z |-> [k |-> "num", s |-> 0, m |-> x.m, e |-> x.e - (d \div 2^20)],
               kd |-> FromInt(d \div 2^20), y |-> y, one |-> Pow2(0),
               invc |-> Entry(t[1]), logc |-> Entry(t[2]), logctail |-> Entry(t[3])]
              @@ pow_log_data,
              1))

\* e_pow.c, checkint: 0 if y is not an integer, 1 if it is odd, 2 if even;
\* y finite and not 0
checkint(y) ==
    IF Exponent(y) < 0 THEN 0
    ELSE IF Exponent(y) > 52 THEN 2
    ELSE IF ~NLowZero(y.m, -y.e) THEN 0
    ELSE IF NBit(y.m, -y.e) = 1 THEN 1
    ELSE 2

\* e_pow.c, __pow past the special cases: (-1)^sg * x^y for x > 0 with m of 53
\* bits, y finite, 2^-65 <= |y| < 2^63
PowExp(x, y, sg) ==
    Then(log_inline(x, y, (x.e + 52 + 1023) * 2^20 + (NToInt(NShr(x.m, 32)) - 2^20)
                          - 1072076117),
         LAMBDA v : exp_inline(v.ehi, v.elo, sg))

\* e_pow.c, __pow where y is 0, infinite or NaN
PowSpecialY(x, y) ==
    IF IsZero(y) THEN Pow2(0)
    ELSE IF x = Pow2(0) THEN Pow2(0)
    ELSE IF IsNaN(x) \/ IsNaN(y) THEN NaN
    ELSE IF FAbs(x) = Pow2(0) THEN Pow2(0)
    ELSE IF FLt(FAbs(x), Pow2(0)) = (y.s = 0) THEN Zero
    ELSE Inf(0)

\* e_pow.c, __pow where x is 0, infinite or NaN and y is finite and not 0;
\* neg: x is negative and y is an odd integer
PowSpecialX(x, y, neg) ==
    IF IsNaN(x) THEN NaN
    ELSE IF IsZero(x) /\ y.s = 1 THEN Inf(IF neg THEN 1 ELSE 0)
    ELSE Then(IF neg THEN FNeg(FMul(x, x)) ELSE FMul(x, x), LAMBDA x2 :
              IF y.s = 1 THEN FDiv(Pow2(0), x2) ELSE x2)

\* e_pow.c, __pow
libm_pow(x, y) ==
    IF y.k # "num" \/ IsZero(y) THEN PowSpecialY(x, y)
    ELSE IF x.k # "num" \/ IsZero(x) THEN PowSpecialX(x, y, x.s = 1 /\ checkint(y) = 1)
    ELSE IF x.s = 1 /\ checkint(y) = 0 THEN NaN
    ELSE IF Exponent(y) < -65 \/ Exponent(y) >= 63
         THEN (IF FAbs(x) = Pow2(0) THEN Pow2(0)
               ELSE IF Exponent(y) < -65
                    THEN FAdd(Pow2(0), IF FLt(Pow2(0), FAbs(x)) THEN y ELSE FNeg(y))
               ELSE IF FLt(Pow2(0), FAbs(x)) = (y.s = 0) THEN Inf(0) ELSE Zero)
    ELSE PowExp(Normal(FAbs(x)), y, IF x.s = 1 /\ checkint(y) = 1 THEN 1 ELSE 0)

(***************************************************************************)
(* Constants of leoorb.h                                                   *)
(***************************************************************************)
\* pi: 3.1415926535897932
PI  == Dec18(314159265, 358979320, -17)

\* rad to deg: 180.0/PI
R2D == FDiv(FromInt(180), PI)

\* day of year of a time: the time of a call is given as its day of year
time2doy(time) == FromInt(time)

(***************************************************************************)
(* The literals of tropmodel.c are written where the source has them, as   *)
(* Lit(n, k) for n * 10^k or as FromInt(n); some are named.                *)
(***************************************************************************)
\* the decimal literals with a fraction, <<n, k>> for n * 10^k
Literals == {
    <<22557, -9>>, <<22768, -7>>, <<2277, -6>>, <<28, -5>>, <<266, -5>>,
    <<65, -4>>, <<52568, -4>>, <<6108, -3>>, <<5, -2>>, <<1715, -2>>,
    <<3845, -2>>, <<27316, -2>>, <<36525, -2>>, <<101325, -2>>, <<5, -1>> }

\* the doubles the compiler makes of them
literal_values == [l \in Literals |-> Dec(l[1], l[2])]

\* the double of the literal n * 10^k, e.g. 1013.25 = Lit(101325, -2)
Lit(n, k) == literal_values[<<n, k>>]

\* -100.0, 1E4: the bounds of the height in tropmodel
dNeg100 == FromInt(-100)
d1E4    == FromInt(10000)

\* temparature at sea level
temp0 == FromInt(15)

\* 15.0: the width of a latitude band of the table (deg)
d15 == FromInt(15)

\* -1000.0, 20000.0: the bounds of the height in tropmapf
dNeg1000 == FromInt(-1000)
d20000   == FromInt(20000)

(***************************************************************************)
(* The arguments of the calls                                              *)
(***************************************************************************)
\* grids of the arguments
NLat == 2
NEl  == 2
NHgt == 1

HalfPi == FDiv(PI, Two)

\* latitudes (rad): 0 .. pi/2, and the southern ones
NorthLats == { FDiv(FMul(FromInt(k), HalfPi), FromInt(NLat)) : k \in 0..NLat }
Lats == { IF south THEN FNeg(l) ELSE l : l \in NorthLats, south \in BOOLEAN }

\* an elevation so small that 1/sin(el) is infinite, and the least one of
\* the grid for which it is finite
TinyEl == Dec(1, -310)
MinEl  == Dec(1, -308)

\* elevations (rad): below and at the horizon, near the horizon (LowEl), so
\* close to the zenith that the cosine of the zenith angle rounds to 1, up to
\* the zenith h = pi/2
LowEl == Dec(1, -4)
ElGrid(h) ==
    { Dec(-1, -1), Zero, TinyEl, MinEl, LowEl, FSub(h, Dec(1, -9)), h }
        \cup { FDiv(FMul(FromInt(k), h), FromInt(NEl)) : k \in 1..NEl }
Els == ElGrid(HalfPi)

\* the elevations of the calls of tropmapf without a wet factor
DryEls == { Zero, LowEl }

\* heights (m) around the bounds of tropmodel and of tropmapf
ModelHgts == { FromInt(-101), dNeg100, FromInt(-50), FromInt(10001) }
             \cup { FromInt((k * 10000) \div NHgt) : k \in 0..NHgt }
MapfHgts  == { FromInt(-1001), dNeg1000, FromInt(20001) }
             \cup { FromInt((k * 20000) \div NHgt) : k \in 0..NHgt }

Humis == { Zero, Dec(7, -1) }

\* day of year, longitude and azimuth of a first call, and other values of them
Time0 == 28
Others == { <<Time0, Zero, Zero>>, <<211, Two, One>> }

\* absolute latitudes (deg) given to interpc: the band limits, the doubles
\* next to 15 and 75, latitudes between, and two beyond every angle: 1.5e9,
\* where lat/15.0 still fits an int, and 1e11, where it does not
InterpLats == { Zero, Dec(75, -1), Dec18(149999999, 999999982, -16), d15,
                Dec18(150000000, 18, -16), Dec(225, -1), FromInt(45),
                FromInt(60), Dec18(749999999, 999999858, -16), FromInt(75),
                FromInt(80), FromInt(90), Dec(15, 8), Dec(1, 11) }

\* what the caller's wet factor variable holds before a call
W0 == FromInt(-1)

(***************************************************************************)
(* tropmodel: standard atmosphere and Saastamoinen model                   *)
(* pos = <<lat, lon, h>> (rad, m), azel = <<az, el>> (rad); C's pos[0],    *)
(* pos[1], pos[2] are pos[1], pos[2], pos[3] here.  The local variables    *)
(* pres, temp, e, z, trph, trpw are operators of what they are computed    *)
(* from.                                                                   *)
(***************************************************************************)
\* the domain guard of tropmodel, with mistakes in it
tropmodel_guard_closed(pos, azel) ==
    FLe(pos[3], dNeg100) \/ FLe(d1E4, pos[3]) \/ FLe(azel[2], Zero)
tropmodel_guard_ltel(pos, azel) ==
    FLt(pos[3], dNeg100) \/ FLt(d1E4, pos[3]) \/ FLt(azel[2], Zero)
tropmodel_guard_nohi(pos, azel) ==
    FLt(pos[3], dNeg100) \/ FLe(azel[2], Zero)

\* pos[2]<-100.0 || 1E4<pos[2] || azel[1] <= 0
tropmodel_guard(pos, azel) ==
    FLt(pos[3], dNeg100) \/ FLt(d1E4, pos[3]) \/ FLe(azel[2], Zero)

\* the height without the clamp
tropmodel_hgt_raw(pos) == pos[3]

\* hgt = pos[2]<0.0 ? 0.0 : pos[2]
tropmodel_hgt(pos) == IF FLt(pos[3], Zero) THEN Zero ELSE pos[3]

\* 1.0 - 2.2557E-5*hgt, the base of the power in pres
tropmodel_base(hgt) == FSub(One, FMul(Lit(22557, -9), hgt))

\* temp = temp0 - 6.5E-3*hgt + 273.16
tropmodel_temp(hgt) == FAdd(FSub(temp0, FMul(Lit(65, -4), hgt)), Lit(27316, -2))

\* (17.15*temp - 4684.0) / (temp - 38.45), the exponent in e
tropmodel_exponent(temp) == FDiv(FSub(FMul(Lit(1715, -2), temp), FromInt(4684)), FSub(temp, Lit(3845, -2)))

\* the elevation taken for the zenith angle
tropmodel_z_el(azel) == azel[2]

\* z = PI / 2.0 - azel[1]
tropmodel_z(azel) == FSub(FDiv(PI, Two), azel[2])

\* year from doy 28, added half a year for southern latitudes; lat in degrees
nmf_y(time, lat) ==
    FAdd(FDiv(FSub(time2doy(time), FromInt(28)), Lit(36525, -2)),
         IF FLt(lat, Zero) THEN Lit(5, -1) ELSE Zero)

(***************************************************************************)
(* The calls of math.h                                                     *)
(*                                                                         *)
(* cos, sin, exp and pow are functions of their arguments alone.  Their    *)
(* values at the arguments that the calls on the grids pass are computed   *)
(* once; at any other argument a call computes the value.                  *)
(***************************************************************************)
\* the zenith angles, twice the latitudes and the angles of the year
CosArgs ==
    { tropmodel_z(<<Zero, el>>) : el \in Els }
        \cup { FMul(Two, lat) : lat \in Lats }
        \cup { FMul(FMul(Two, PI), nmf_y(o[1], l)) : o \in Others, l \in {One, FNeg(One)} }
SinArgs == Els
ExpArgs == { tropmodel_exponent(tropmodel_temp(h)) : h \in ModelHgts }
PowArgs == { <<tropmodel_base(h), Lit(52568, -4)>> : h \in ModelHgts }

cos_values == [a \in CosArgs |-> libm_cos(a)]
sin_values == [a \in SinArgs |-> libm_sin(a)]
exp_values == [a \in ExpArgs |-> libm_exp(a)]
pow_values == [a \in PowArgs |-> libm_pow(a[1], a[2])]

\* the value v of a function at x, taken from the table of its values if x is
\* in it
Memo(values, x, v) == IF x \in DOMAIN values THEN values[x] ELSE v

cos(x) == Memo(cos_values, x, libm_cos(x))
sin(x) == Memo(sin_values, x, libm_sin(x))
exp(x) == Memo(exp_values, x, libm_exp(x))
pow(x, y) == Memo(pow_values, <<x, y>>, libm_pow(x, y))

\* pres = 1013.25*pow(1.0 - 2.2557E-5*hgt, 5.2568)
tropmodel_pres(hgt) == FMul(Lit(101325, -2), pow(tropmodel_base(hgt), Lit(52568, -4)))

\* e = 6.108*humi*exp((17.15*temp - 4684.0) / (temp - 38.45))
tropmodel_e(humi, temp) == FMul(FMul(Lit(6108, -3), humi), exp(tropmodel_exponent(temp)))

\* trph = 0.0022768*pres / (1.0 - 0.00266*cos(2.0*pos[0]) - 0.00028*hgt / 1E3) / cos(z)
tropmodel_trph(pres, pos, hgt, cosz) ==
    FDiv(FDiv(FMul(Lit(22768, -7), pres),
              FSub(FSub(One, FMul(Lit(266, -5), cos(FMul(Two, pos[1])))),
                   FDiv(FMul(Lit(28, -5), hgt), FromInt(1000)))),
         cosz)

\* trpw = 0.002277*(1255.0 / temp + 0.05)*e / cos(z)
tropmodel_trpw(temp, e, cosz) ==
    FDiv(FMul(FMul(Lit(2277, -6), FAdd(FDiv(FromInt(1255), temp), Lit(5, -2))), e), cosz)

\* trpw from temp and the e computed from it
tropmodel_wet(temp, humi, cosz) == tropmodel_trpw(temp, tropmodel_e(humi, temp), cosz)

\* trph + trpw, cosz the value of cos(z)
tropmodel_sum(pos, humi, hgt, cosz) ==
    FAdd(tropmodel_trph(tropmodel_pres(hgt), pos, hgt, cosz),
         tropmodel_wet(tropmodel_temp(hgt), humi, cosz))

tropmodel(time, pos, azel, humi) ==
    IF tropmodel_guard(pos, azel) THEN Zero
    ELSE tropmodel_sum(pos, humi, tropmodel_hgt(pos), cos(tropmodel_z(azel)))

(***************************************************************************)
(* Niell mapping function                                                  *)
(***************************************************************************)
\* ref [5] table 3: hydro-ave-a,b,c, hydro-amp-a,b,c, wet-a,b,c at latitude
\* 15,30,45,60,75; C's coef[r][k] is coef[r+1][k+1] here.  A literal is
\* given as <<n, k>> for n * 10^k
coef_decimal == <<
    << <<12769934, -10>>, <<12683230, -10>>, <<12465397, -10>>, <<12196049, -10>>, <<12045996, -10>> >>,
    << <<29153695, -10>>, <<29152299, -10>>, <<29288445, -10>>, <<29022565, -10>>, <<29024912, -10>> >>,
    << <<62610505, -9>>, <<62837393, -9>>, <<63721774, -9>>, <<63824265, -9>>, <<64258455, -9>> >>,

    << <<0, 0>>, <<12709626, -12>>, <<26523662, -12>>, <<34000452, -12>>, <<41202191, -12>> >>,
    << <<0, 0>>, <<21414979, -12>>, <<30160779, -12>>, <<72562722, -12>>, <<11723375, -11>> >>,
    << <<0, 0>>, <<90128400, -12>>, <<43497037, -12>>, <<84795348, -11>>, <<17037206, -10>> >>,

    << <<58021897, -11>>, <<56794847, -11>>, <<58118019, -11>>, <<59727542, -11>>, <<61641693, -11>> >>,
    << <<14275268, -10>>, <<15138625, -10>>, <<14572752, -10>>, <<15007428, -10>>, <<17599082, -10>> >>,
    << <<43472961, -9>>, <<46729510, -9>>, <<43908931, -9>>, <<44626982, -9>>, <<54736038, -9>> >>
>>

\* the doubles of the literals
coef == [r \in 1..9 |-> [k \in 1..5 |-> Dec(coef_decimal[r][k][1], coef_decimal[r][k][2])]]

\* height correction: 2.53E-5, 5.49E-3, 1.14E-3
aht_decimal == << <<253, -7>>, <<549, -5>>, <<114, -5>> >>
aht == [k \in 1..3 |-> Dec(aht_decimal[k][1], aht_decimal[k][2])]

\* the interpolation with the two weights exchanged; q = lat / 15.0
interpc_weights_swapped(c, q, i) ==
    FAdd(FMul(c[i], FSub(q, FromInt(i))),
         FMul(c[i + 1], FAdd(FSub(One, q), FromInt(i))))

\* coef[i - 1] * (1.0 - lat / 15.0 + i) + coef[i] * (lat / 15.0 - i); q = lat / 15.0
interpc_weights(c, q, i) ==
    FAdd(FMul(c[i], FAdd(FSub(One, q), FromInt(i))),
         FMul(c[i + 1], FSub(q, FromInt(i))))

\* interpc from i = (int)(lat / 15.0) on; q = lat / 15.0
interpc_i(c, q, i) ==
    IF i < 1 THEN c[1]
    ELSE IF i > 4 THEN c[5]
    ELSE interpc_weights(c, q, i)

\* interpc from q = lat / 15.0 on: i = (int)q, or the outcome u of the
\* undefined conversion
interpc_q(c, q, u) ==
    IF FitsInt(q) THEN interpc_i(c, q, FInt(q))
    ELSE IF u.k = "killed" THEN Killed
    ELSE interpc_i(c, q, u.v)

\* c is a row of coef (C's coef[k] is c[k+1]), lat in degrees; u in Undefined
\* is the outcome of the conversion if lat / 15.0 does not fit an int
interpc(c, lat, u) == interpc_q(c, FDiv(lat, d15), u)

\* mapf from sinel = sin(el) on, without the normalisation of the numerator
mapf_sinel_unnormalised(sinel, a, b, c) ==
    FDiv(One,
         FAdd(sinel, FDiv(a, FAdd(sinel, FDiv(b, FAdd(sinel, c))))))

\* mapf from sinel = sin(el) on
mapf_sinel(sinel, a, b, c) ==
    FDiv(FAdd(One, FDiv(a, FAdd(One, FDiv(b, FAdd(One, c))))),
         FAdd(sinel, FDiv(a, FAdd(sinel, FDiv(b, FAdd(sinel, c))))))

mapf(el, a, b, c) == mapf_sinel(sin(el), a, b, c)

\* cosy = cos(2.0*PI*y)
nmf_cosy(y) == cos(FMul(FMul(Two, PI), y))

\* ah[i] and aw[i] for i = 0, 1, 2 (here 1, 2, 3); lat = fabs(lat) in degrees
nmf_ah(lat, cosy, u) ==
    [i \in 1..3 |-> FSub(interpc(coef[i], lat, u), FMul(interpc(coef[i + 3], lat, u), cosy))]
nmf_aw(lat, u) == [i \in 1..3 |-> interpc(coef[i + 6], lat, u)]

\* the height correction with the wrong sign
nmf_dm_negated(el, hgt) ==
    FDiv(FMul(FSub(mapf(el, aht[1], aht[2], aht[3]), FDiv(One, sin(el))), hgt), FromInt(1000))

\* dm = (1.0 / sin(el) - mapf(el, aht[0], aht[1], aht[2]))*hgt / 1E3
nmf_dm(el, hgt) ==
    FDiv(FMul(FSub(FDiv(One, sin(el)), mapf(el, aht[1], aht[2], aht[3])), hgt), FromInt(1000))

\* the wet factor with the height correction added
nmf_mapfw_corrected(el, aw, dm) == FAdd(mapf(el, aw[1], aw[2], aw[3]), dm)

\* *mapfw = mapf(el, aw[0], aw[1], aw[2])
nmf_mapfw(el, aw, dm) == mapf(el, aw[1], aw[2], aw[3])

\* the results of nmf: the returned dry factor and the content of *mapfw
nmf_results(el, ah, aw, dm, mapfw, w0) ==
    [ret   |-> FAdd(mapf(el, ah[1], ah[2], ah[3]), dm),
     mapfw |-> IF mapfw THEN nmf_mapfw(el, aw, dm) ELSE w0]

\* nmf past its guard; lat in degrees.  If the conversions of interpc are
\* undefined and the program is killed in the loop, nothing is returned.
nmf_model(time, lat, hgt, el, mapfw, w0, u) ==
    IF u.k = "killed" /\ ~FitsInt(FDiv(fabs(lat), d15))
    THEN [ret |-> Killed, mapfw |-> Killed]
    ELSE nmf_results(el, nmf_ah(fabs(lat), nmf_cosy(nmf_y(time, lat)), u),
                     nmf_aw(fabs(lat), u), nmf_dm(el, hgt), mapfw, w0)

\* A call gets mapfw = TRUE for a non-NULL pointer; w0 is what the pointed-to
\* variable holds before the call.  The result is the returned dry factor and
\* the variable's content after the call.  u in Undefined is the outcome of an
\* undefined conversion in interpc.
nmf(time, pos, azel, mapfw, w0, u) ==
    IF FLe(azel[2], Zero)
    THEN [ret |-> Zero, mapfw |-> IF mapfw THEN Zero ELSE w0]
    ELSE nmf_model(time, FMul(pos[1], R2D), pos[3], azel[2], mapfw, w0, u)

\* the domain guard of tropmapf without the upper bound
tropmapf_guard_nohi(pos) == FLt(pos[3], dNeg1000)

\* pos[2]<-1000.0 || pos[2]>20000.0
tropmapf_guard(pos) == FLt(pos[3], dNeg1000) \/ FLt(d20000, pos[3])

tropmapf(time, pos, azel, mapfw, w0, u) ==
    IF tropmapf_guard(pos)
    THEN [ret |-> Zero, mapfw |-> IF mapfw THEN Zero ELSE w0]
    ELSE nmf(time, pos, azel, mapfw, w0, u)

(***************************************************************************)
(* Calls of the library                                                    *)
(*                                                                         *)
(* The functions are pure; the state is what a caller sees: one call of    *)
(* interpc, or the last two calls of tropmodel and tropmapf, the second    *)
(* one with some arguments changed and the others kept.                    *)
(***************************************************************************)
NoCall == [fn |-> "none"]

VARIABLES pc, first, second, ic

vars == <<pc, first, second, ic>>

Init ==
    /\ pc = "idle"
    /\ first = NoCall
    /\ second = NoCall
    /\ ic = [row |-> 0]

\* The values of tropmodel and of tropmapf on the grid of the arguments,
\* <<time, pos, azel, humi>> and <<time, pos, azel, mapfw>>: the functions are
\* pure, so a call returns the value computed once for its arguments.
ModelArgs ==
    { <<o[1], <<lat, o[2], hgt>>, <<o[3], el>>, humi>> :
        o \in Others, lat \in Lats, hgt \in ModelHgts, el \in Els, humi \in Humis }

\* without a wet factor (mapfw = FALSE) for the elevations DryEls only
MapfArgs ==
    { a \in { <<o[1], <<lat, o[2], hgt>>, <<o[3], el>>, mapfw>> :
                o \in Others, lat \in Lats, hgt \in MapfHgts, el \in Els, mapfw \in BOOLEAN } :
        a[4] \/ a[3][2] \in DryEls }

tropmodel_values == [a \in ModelArgs |-> tropmodel(a[1], a[2], a[3], a[4])]
\* The latitudes of MapfArgs are angles: every conversion of interpc in these
\* calls is defined, and in place of the outcome of an undefined one stands a
\* record without a value to convert to.
tropmapf_values  ==
    [a \in MapfArgs |-> tropmapf(a[1], a[2], a[3], a[4], W0, [k |-> "defined"])]

\* the call tropmodel(time, pos, azel, humi) for a = <<time, pos, azel, humi>>
ModelCall(values, a) ==
    [fn |-> "tropmodel", time |-> a[1], pos |-> a[2], azel |-> a[3], humi |-> a[4],
     ret |-> values[a]]

\* the call tropmapf(time, pos, azel, mapfw) for a = <<time, pos, azel, mapfw>>:
\* ret is the dry factor returned, w the content of *mapfw after the call
MapfCall(values, a) ==
    [fn |-> "tropmapf", time |-> a[1], pos |-> a[2], azel |-> a[3], mapfw |-> a[4],
     ret |-> values[a].ret, w |-> values[a].mapfw]

\* the arguments of a first call: day Time0, longitude 0, azimuth 0
FirstArgs(a) == a[1] = Time0 /\ a[2][2] = Zero /\ a[3][1] = Zero

\* the arguments of a second call of tropmodel, after the call c: another
\* elevation, or another height, time, longitude and azimuth, all else as in c
ModelAgain(c, a) ==
    /\ a[2][1] = c.pos[1] /\ a[4] = c.humi
    /\ \/ a[1] = c.time /\ a[2] = c.pos /\ a[3][1] = c.azel[1]
       \/ a[3][2] = c.azel[2]

\* the arguments of a second call of tropmapf, after the call c: the same
\* elevation and the same absolute latitude; another time, hemisphere, height,
\* longitude and azimuth
MapfAgain(c, a) ==
    /\ a[3][2] = c.azel[2] /\ a[4] = c.mapfw
    /\ a[2][1] \in {c.pos[1], FNeg(c.pos[1])}

\* the arguments of a call of tropmapf for the position and direction of the
\* call c of tropmodel
MapfAfterModel(c, a) == a = <<c.time, c.pos, c.azel, TRUE>>

\* ret = interpc(coef[row], lat)
CallInterpc ==
    /\ pc = "idle"
    /\ \E row \in 1..9, lat \in InterpLats, u \in Undefined :
          ic' = [row |-> row, lat |-> lat, ret |-> interpc(coef[row], lat, u)]
    /\ pc' = "interpc"
    /\ UNCHANGED <<first, second>>

\* ret = tropmodel(time, pos, azel, humi): a first or a second call
CallTropmodel ==
    /\ pc \in {"idle", "model1"}
    /\ \E values \in {tropmodel_values} : \E a \in DOMAIN values :
          /\ IF pc = "idle" THEN FirstArgs(a) ELSE ModelAgain(first, a)
          /\ first' = IF pc = "idle" THEN ModelCall(values, a) ELSE first
          /\ second' = IF pc = "idle" THEN second ELSE ModelCall(values, a)
    /\ pc' = IF pc = "idle" THEN "model1" ELSE "model2"
    /\ UNCHANGED ic

\* ret = tropmapf(time, pos, azel, mapfw): a first call in the north, a second
\* call, or a call after a call of tropmodel
CallTropmapf ==
    /\ pc \in {"idle", "mapf1", "model1"}
    /\ \E values \in {tropmapf_values} : \E a \in DOMAIN values :
          /\ CASE pc = "idle" -> FirstArgs(a) /\ a[2][1] \in NorthLats
               [] pc = "mapf1" -> MapfAgain(first, a)
               [] pc = "model1" -> MapfAfterModel(first, a)
          /\ first' = IF pc = "idle" THEN MapfCall(values, a) ELSE first
          /\ second' = IF pc = "idle" THEN second ELSE MapfCall(values, a)
    /\ pc' = CASE pc = "idle" -> "mapf1" [] pc = "mapf1" -> "mapf2" [] pc = "model1" -> "both"
    /\ UNCHANGED ic

Next ==
    \/ CallInterpc
    \/ CallTropmodel
    \/ CallTropmapf

Spec == Init /\ [][Next]_vars

\* the calls of one function only
SpecInterpc == Init /\ [][CallInterpc]_vars
SpecModel   == Init /\ [][CallTropmodel]_vars
SpecMapf    == Init /\ [][CallTropmapf]_vars

(***************************************************************************)
(* Properties                                                              *)
(***************************************************************************)
Made == {first, second}
IsModel(c) == c.fn = "tropmodel"
IsMapf(c)  == c.fn = "tropmapf"

Lat(c)  == c.pos[1]
Hgt(c)  == c.pos[3]
El(c)   == c.azel[2]

\* a <= x <= b
Within(x, a, b) == FLe(a, x) /\ FLe(x, b)

\* tropmapf yielded (0,0): dry factor 0 and, if requested, wet factor 0
ZeroPair(c) == c.ret = Zero /\ (c.mapfw => c.w = Zero)

\* C1: with an elevation <= 0, tropmodel returns exactly 0 and tropmapf
\* returns dry factor 0 and sets a requested wet factor to 0, whatever the other
\* arguments are.
C1_NonPositiveElevationIsZero ==
    \A c \in Made :
        /\ (IsModel(c) /\ FLe(El(c), Zero)) => c.ret = Zero
        /\ (IsMapf(c) /\ FLe(El(c), Zero)) => ZeroPair(c)

\* tropmodel and then tropmapf were called at the horizon with a height both
\* accept, and both gave zero
C1_Witness ==
    /\ pc = "both"
    /\ El(first) = Zero /\ Hgt(first) = Zero
    /\ first.ret = Zero
    /\ second.mapfw /\ second.ret = Zero /\ second.w = Zero

\* C2: with a height < -100 m or > 10000 m, tropmodel returns exactly 0,
\* whatever the other arguments are.
C2_ModelHeightOutsideIsZero ==
    \A c \in Made :
        (IsModel(c) /\ (FLt(Hgt(c), dNeg100) \/ FLt(d1E4, Hgt(c))))
            => c.ret = Zero

\* tropmodel was called 1 m above its upper bound, at the zenith
C2_Witness ==
    /\ pc = "model1"
    /\ Hgt(first) = FromInt(10001) /\ El(first) = HalfPi
    /\ first.ret = Zero

\* C3: with a height < -1000 m or > 20000 m, tropmapf yields (0,0), whatever
\* the elevation, latitude and time are.
C3_MapfHeightOutsideIsZero ==
    \A c \in Made :
        (IsMapf(c) /\ (FLt(Hgt(c), dNeg1000) \/ FLt(d20000, Hgt(c))))
            => ZeroPair(c)

\* tropmapf was called 1 m above its upper bound, at the zenith, for both factors
C3_Witness ==
    /\ pc = "mapf1"
    /\ Hgt(first) = FromInt(20001) /\ El(first) = HalfPi /\ first.mapfw
    /\ first.ret = Zero /\ first.w = Zero

d75 == FromInt(75)

\* an absolute latitude (deg) from 75 deg on: 90 deg, and whatever is given
\* for one beyond it as long as line 35 can convert lat / 15.0 to an int
FromLat75(lat) == FLe(d75, lat) /\ FitsInt(FDiv(lat, d15))

\* C4: interpc never extrapolates: for an absolute latitude in [0, 15] deg it
\* returns exactly the row's 15-degree entry, for one >= 75 deg (90 deg
\* included) exactly the row's 75-degree entry.
C4_InterpcClamped ==
    pc = "interpc" =>
        /\ Within(ic.lat, Zero, d15) => ic.ret = coef[ic.row][1]
        /\ FromLat75(ic.lat) => ic.ret = coef[ic.row][5]

\* interpc was called for the seasonal amplitude of b at 90 deg and returned
\* the 75-degree entry, which is not the 15-degree entry
C4_Witness ==
    /\ pc = "interpc"
    /\ ic.row = 5 /\ ic.lat = FromInt(90)
    /\ ic.ret = coef[5][5] /\ ic.ret # coef[5][1]

\* a call of tropmapf inside its domain: elevation in (0, pi/2], height in
\* [-1000, 20000] m
MapfInDomain(c) ==
    /\ IsMapf(c)
    /\ FLt(Zero, El(c)) /\ FLe(El(c), HalfPi)
    /\ Within(Hgt(c), dNeg1000, d20000)

HorizonOverflow(el) == IsInf(FDiv(One, sin(el)))

d1Em3 == Dec(1, -3)

\* |x - 1| <= 1e-3
NearOne(x) == FLe(fabs(FSub(x, One)), d1Em3)

\* C6: at elevation pi/2 and height 0, for every latitude and time, the dry and
\* the wet factor tropmapf returns are within 1e-3 of 1.
C6_ZenithFactorsNearOne ==
    \A c \in Made :
        (IsMapf(c) /\ FEq(El(c), HalfPi) /\ FEq(Hgt(c), Zero))
            => NearOne(c.ret) /\ (c.mapfw => NearOne(c.w))

\* zenith, height 0, mid latitude in the south in summer
C6_Witness ==
    /\ pc = "mapf2"
    /\ El(second) = HalfPi /\ Hgt(second) = Zero /\ second.mapfw
    /\ FLt(Lat(second), Zero) /\ second.time = 211
    /\ NearOne(second.ret) /\ NearOne(second.w)

\* a call of tropmodel inside its domain: height in [-100, 10000] m, elevation
\* in (0, pi/2], humidity >= 0
ModelInDomain(c) ==
    /\ IsModel(c)
    /\ Within(Hgt(c), dNeg100, d1E4)
    /\ FLt(Zero, El(c)) /\ FLe(El(c), HalfPi)
    /\ FLe(Zero, c.humi)

\* two calls of tropmodel in its domain that differ in the elevation only,
\* a with the lower one
LowerElevation(a, b) ==
    /\ ModelInDomain(a) /\ ModelInDomain(b)
    /\ a.time = b.time /\ a.pos = b.pos /\ a.humi = b.humi /\ a.azel[1] = b.azel[1]
    /\ FLt(El(a), El(b))

\* C7 as stated: the delay for the lower of two elevations is strictly greater.
C7_Original_StrictlyMonotone ==
    \A a \in Made : \A b \in Made : LowerElevation(a, b) => FLt(b.ret, a.ret)

\* C7 amended: for 0 < el1 < el2 <= pi/2 and all else fixed, the delay for
\* el1 is greater than or equal to the delay for el2; it is equal when
\* cos(PI/2 - el) is the same double for both, as it is for two elevations
\* within 1e-8 rad of the zenith, where it is 1.
C7_Monotone ==
    \A a \in Made : \A b \in Made : LowerElevation(a, b) => FLe(b.ret, a.ret)

\* near the horizon and then at the zenith
C7_Witness ==
    /\ pc = "model2"
    /\ LowerElevation(first, second)
    /\ El(first) = LowEl /\ El(second) = HalfPi
    /\ FLt(second.ret, first.ret)

\* two calls of tropmodel that differ in the height only, a below the
\* ellipsoid in [-100, 0) and b at height 0, elevation > 0
BelowEllipsoid(a, b) ==
    /\ IsModel(a) /\ IsModel(b)
    /\ a.time = b.time /\ a.azel = b.azel /\ a.humi = b.humi
    /\ a.pos[1] = b.pos[1] /\ a.pos[2] = b.pos[2]
    /\ FLe(dNeg100, Hgt(a)) /\ FLt(Hgt(a), Zero) /\ FEq(Hgt(b), Zero)
    /\ FLt(Zero, El(a)) /\ FLe(El(a), HalfPi)

\* C8 as stated: the denominator of the hydrostatic delay takes the raw
\* negative height, so the delay for a height in [-100, 0) differs from the
\* delay at height 0.
C8_Original_RawHeightInDenominator ==
    \A a \in Made : \A b \in Made : BelowEllipsoid(a, b) => ~FEq(a.ret, b.ret)

\* C8 amended: for a height in [-100, 0) the clamped height max(height, 0) = 0
\* is used for the pressure and temperature profile and for the height term of
\* the hydrostatic denominator too, so the delay equals the delay at height 0.
C8_ClampedHeightEverywhere ==
    \A a \in Made : \A b \in Made : BelowEllipsoid(a, b) => FEq(a.ret, b.ret)

\* height 0 and then -50 m
C8_Witness ==
    /\ pc = "model2"
    /\ BelowEllipsoid(second, first)
    /\ Hgt(second) = FromInt(-50)
    /\ FEq(second.ret, first.ret) /\ FLt(Zero, first.ret)

\* C9: two calls of tropmapf in its domain with the same elevation and the same
\* absolute latitude set the same wet factor, whatever the times, the signs of
\* the latitude, the longitudes, the azimuths and the heights are.
C9_WetFactorOfElevationAndLatitude ==
    \A a \in Made : \A b \in Made :
        (/\ MapfInDomain(a) /\ MapfInDomain(b)
         /\ a.mapfw /\ b.mapfw
         /\ FEq(El(a), El(b)) /\ FEq(fabs(Lat(a)), fabs(Lat(b))))
            => FEq(a.w, b.w)

\* north at 0 m in winter, then south at 20000 m in summer, another longitude
\* and azimuth
C9_Witness ==
    /\ pc = "mapf2"
    /\ MapfInDomain(first) /\ MapfInDomain(second)
    /\ first.mapfw /\ second.mapfw
    /\ first.time # second.time
    /\ FLt(Zero, Lat(first)) /\ Lat(second) = FNeg(Lat(first))
    /\ Hgt(first) = Zero /\ Hgt(second) = d20000
    /\ first.pos[2] # second.pos[2] /\ first.azel[1] # second.azel[1]
    /\ ~FEq(first.ret, second.ret)
    /\ FEq(first.w, second.w) /\ FLt(Zero, first.w)

\* C10: inside the domain of tropmodel (height in [-100, 10000] m with both
\* bounds, elevation in (0, pi/2], humidity >= 0) the delay is > 0, so
\* tropmodel returns 0 only for a height < -100, a height > 10000 or an
\* elevation <= 0.
C10_ZeroOnlyOutsideDomain ==
    \A c \in Made : ModelInDomain(c) => FLt(Zero, c.ret)

\* on the upper bound of the height, dry air
C10_Witness ==
    /\ pc = "model1"
    /\ Hgt(first) = d1E4 /\ first.humi = Zero
    /\ FLt(Zero, first.ret)

====
